---------------------------- MODULE Spec2Model ----------------------------
(***************************************************************************)
(* State-machine model of the krashbot ordering bot: the Database of       *)
(* src/db.py, the BotHandlers of src/handlers.py and the catalogue and     *)
(* delivery intervals of src/config.py.                                    *)
(*                                                                         *)
(* Python dicts are functions whose DOMAIN is the set of keys, lists are   *)
(* sequences (index i of Python is index i+1 here, the editing cursor      *)
(* keeps its 0-based Python value), None is the string "None".  Time is    *)
(* counted in minutes since 00:00 of day 0; a date string is its day       *)
(* number, an interval string "6:00 - 8:00" is the tuple <<6, 0, 8, 0>>.   *)
(*                                                                         *)
(* A handler is a coroutine: it runs without interruption between two      *)
(* awaits.  A handler whose state changes all lie in one such block is one *)
(* action; process_delivery_time and cancel_last_order change state on     *)
(* both sides of their awaits, so each is a first action that runs up to   *)
(* its first state-relevant await and leaves a record in `tasks`, and one  *)
(* action per later await that resolves the await (delivered or raised)    *)
(* and runs the code up to the next one.                                   *)
(***************************************************************************)
EXTENDS Integers, Sequences, FiniteSets, TLC

VARIABLES
    clients,          \* db table clients: user_id -> (organization, contact_person)
    orders,           \* db table orders: row k has order_id k
    pool,             \* Database.pool: the connections checked out of it
    get_client_cache, \* the lru_cache of Database.get_client
    user_carts,       \* BotHandlers.user_carts: user_id -> {"items": [...]}
    current_editing,  \* BotHandlers.current_editing: user_id -> index
    selected_dates,   \* BotHandlers.selected_dates: user_id -> date_str
    last_orders,      \* BotHandlers.last_orders: user_id -> handle
    pending_product,  \* BotHandlers.pending_product: user_id -> product
    conversation,     \* ConversationHandler: user_id -> state, no key at END
    user_data,        \* context.user_data: user_id -> {"organization": ...}
    ADMIN_IDS,        \* config.ADMIN_IDS, the list add_admin/remove_admin edit
    now,              \* datetime.now(), in minutes
    chat,             \* per user: the text and keyboard the bot showed last
    admin_chat,       \* per admin chat: the send_message calls made to it
    tasks             \* handler invocations suspended at an await

dbVars   == <<clients, orders, pool>>
regVars  == <<conversation, user_data>>
memVars  == <<get_client_cache, user_carts, current_editing, selected_dates,
              last_orders, pending_product, regVars, ADMIN_IDS, tasks>>
cartVars == <<user_carts, current_editing>>
outVars  == <<chat, admin_chat>>
vars     == <<clients, orders, pool, get_client_cache, user_carts, current_editing,
              selected_dates, last_orders, pending_product, conversation,
              user_data, ADMIN_IDS, now, chat, admin_chat, tasks>>

-----------------------------------------------------------------------------
(* Bounds of the model *)

MaxProduct == 3   \* products 1..MaxProduct are the ones users send
MaxQty == 2       \* a user types a quantity of 1..MaxQty
MaxUnits == 4     \* units a cart holds at most, over all its lines
MaxOrders == 1    \* Spec: rows the orders table may hold
MaxTicks == 1     \* the clock advances MaxTicks times by ClockStep
CartLines == 2    \* SpecCart: products 1..CartLines, one unit each
MaxTasks == 2     \* SpecConc: handlers that wait at an await at one time
MaxRows == 2      \* SpecConc, SpecGuard, SpecSlot: rows of the orders table

-----------------------------------------------------------------------------
(* Python values *)

None == "None"

\* Falsy that takes None for a value: "if not organization" never refuses
Falsy_never(x) == x = ""

Falsy(x) == x = None \/ x = ""

Min(a, b) == IF a <= b THEN a ELSE b

\* d[k] = v
DictSet(d, k, v) == [x \in DOMAIN d \cup {k} |-> IF x = k THEN v ELSE d[x]]

\* del d[k] / d.pop(k, None)
DictDel(d, k) == [x \in DOMAIN d \ {k} |-> d[x]]

EmptyDict == [x \in {} |-> None]

\* a del that drops the first element whatever the index
ListDel_first(lst, idx) == [k \in 1..(Len(lst) - 1) |-> lst[k + 1]]

\* del lst[idx], idx 0-based
ListDel(lst, idx) ==
    [k \in 1..(Len(lst) - 1) |-> IF k <= idx THEN lst[k] ELSE lst[k + 1]]

-----------------------------------------------------------------------------
(* config.py *)

NumProducts == 13

\* the titles of PRODUCTS, transliterated
Titles ==
    << "Klassicheskij kruassan", "Mindalnyj kruassan", "Kruassan v zamorozke",
       "Pan-o-shokolya", "Kruassan vanilnyj krem", "Kruassan shokoladnyj krem",
       "Kruassan matcha krem", "Mini kruassan klassicheskij",
       "Ulitka sloenaya s izyumom", "Ulitka sloenaya s makom",
       "Sloenaya bulochka s kardamonom",
       "Kombo 1: Kruassan klassicheskij + dzhem/maslo",
       "Kombo 2: kruassan klassicheskij + dzhem + maslo" >>

PRODUCTS == [k \in 1..NumProducts |-> [id |-> k, title |-> Titles[k]]]

\* first_line in PRODUCTS_BY_TITLE: exact match on the title
TitleKnown(first_line) == \E k \in 1..NumProducts : PRODUCTS[k].title = first_line

\* PRODUCTS_BY_TITLE[first_line]
PRODUCTS_BY_TITLE(first_line) ==
    PRODUCTS[CHOOSE k \in 1..NumProducts : PRODUCTS[k].title = first_line]

DELIVERY_TIME_INTERVALS ==
    << <<6, 0, 8, 0>>,   <<6, 30, 8, 30>>,  <<7, 0, 9, 0>>,   <<7, 30, 9, 30>>,
       <<8, 0, 10, 0>>,  <<8, 30, 10, 30>>, <<9, 0, 11, 0>>,  <<9, 30, 11, 30>>,
       <<10, 0, 12, 0>>, <<10, 30, 12, 30>>, <<11, 0, 13, 0>> >>

\* the users and the admin chats of the model
Users == {1, 2}
Admins == {8, 9}

\* the profile a user registers with
Profile(u) ==
    IF u = 1 THEN [organization |-> "Roga", contact_person |-> "Ivanov Ivan"]
    ELSE [organization |-> "Kopyta", contact_person |-> "Abramov Petr"]

-----------------------------------------------------------------------------
(* datetime *)

MinutesPerHour == 60
MinutesPerDay == 24 * MinutesPerHour

\* timedelta(hours=6)
CancelCutoff == 6 * MinutesPerHour

\* datetime.strptime(date_str, "%Y-%m-%d")
ParseDate(date_str) == date_str * MinutesPerDay

\* time_str.split(" - ")[0]
StartTimeStr(time_str) == <<time_str[1], time_str[2]>>

\* datetime.strptime(f"{date_str} {start_time_str}", "%Y-%m-%d %H:%M")
ParseDateTime(date_str, start_time_str) ==
    ParseDate(date_str) + start_time_str[1] * MinutesPerHour + start_time_str[2]

\* a callback payload that is no date of the calendar ("2025-02-30", "abc")
\* is a negative day number here, the empty payload is -1: not date_str
EmptyText(date_str) == date_str = -1

\* datetime.strptime(date_str, "%Y-%m-%d") returns; ValueError otherwise
IsDate(date_str) == date_str >= 0

\* a %H:%M that takes any two numbers
IsTime_any(start_time_str) == TRUE

\* datetime.strptime(..., "%H:%M") returns for the start time
IsTime(start_time_str) ==
    start_time_str[1] \in 0..23 /\ start_time_str[2] \in 0..(MinutesPerHour - 1)

\* the day number of datetime.now()
Today == now \div MinutesPerDay

\* the granularity of the model's clock, and the time of the first start:
\* 18:00 of day 0
ClockStep == CancelCutoff

StartTime == 3 * ClockStep

-----------------------------------------------------------------------------
(* db.py: Database.  `dbok` is whether the statement runs; when it is FALSE  *)
(* the try block raises (the connection, the server, the driver) and the     *)
(* except branch of the method runs.  A method takes its connection and     *)
(* gives it back within one call (try_finally), so an action of a handler   *)
(* that calls methods of Database leaves pool as it found it.                *)

\* Database.get_connection (24-25): pool.getconn(), one more checked out
get_connection(used) == used + 1

\* Database.put_connection (27-28): pool.putconn(conn)
put_connection(used) == used - 1

\* Database.__init__ (11-22): a new pool, then "with self.get_connection() as
\* conn": leaving the with block of a psycopg2 connection commits or rolls
\* back its transaction; it does not close the connection and does not give
\* it back to the pool, and __init__ has no put_connection
Database_init == get_connection(0)

\* conn = self.get_connection(); try: ... except: ... finally:
\* self.put_connection(conn), the shape of every other method of Database and
\* of admin_stats (handlers.py 613-636): the finally block runs after the
\* return of the try block (dbok) and after the except block
try_finally(used, dbok) ==
    LET conn == get_connection(used)
    IN  IF dbok THEN put_connection(conn) ELSE put_connection(conn)

\* (None, None)
NoClient == [organization |-> None, contact_person |-> None]

\* Database.get_client: the lru_cache answers a user_id it has seen, and
\* keeps whatever the first call returned, (None, None) included
get_client(user_id, dbok) ==
    IF user_id \in DOMAIN get_client_cache THEN get_client_cache[user_id]
    ELSE IF dbok /\ user_id \in DOMAIN clients THEN clients[user_id]
    ELSE NoClient

\* the cache after Database.get_client(user_id)
get_client_cached(user_id, dbok) ==
    DictSet(get_client_cache, user_id, get_client(user_id, dbok))

\* Database.add_client: INSERT; a duplicate key or a failed statement is
\* rolled back and swallowed
add_client(user_id, organization, contact_person, dbok) ==
    IF dbok /\ user_id \notin DOMAIN clients
    THEN DictSet(clients, user_id,
                 [organization |-> organization, contact_person |-> contact_person])
    ELSE clients

\* a JSONB column that gives the array of the items back to front
Jsonb_reversed(order_data) ==
    [items |-> [k \in 1..Len(order_data.items) |->
                   order_data.items[Len(order_data.items) + 1 - k]],
     organization |-> order_data.organization,
     contact_person |-> order_data.contact_person,
     username |-> order_data.username]

\* json.dumps(order_data) of 108 into the JSONB column, as psycopg2 gives it
\* back: the object with its four keys, the array of the items element by
\* element in its order, each item's product and quantity; None is null and
\* comes back as None
Jsonb(order_data) ==
    [items |-> [k \in 1..Len(order_data.items) |->
                   [product |-> order_data.items[k].product,
                    quantity |-> order_data.items[k].quantity]],
     organization |-> order_data.organization,
     contact_person |-> order_data.contact_person,
     username |-> order_data.username]

\* save_order as an upsert on user_id: the user's newest row is overwritten
save_order_upsert(user_id, order_data, delivery_date, delivery_time, dbok) ==
    LET own == {k \in 1..Len(orders) : orders[k].user_id = user_id}
        last == CHOOSE k \in own : \A j \in own : j <= k
    IN  IF ~dbok THEN [raised |-> TRUE, order_id |-> 0, orders |-> orders]
        ELSE IF own = {}
        THEN [raised |-> FALSE,
              order_id |-> Len(orders) + 1,
              orders |-> Append(orders,
                           [order_id |-> Len(orders) + 1, user_id |-> user_id,
                            order_data |-> order_data,
                            delivery_date |-> delivery_date,
                            delivery_time |-> delivery_time, status |-> "active"])]
        ELSE [raised |-> FALSE,
              order_id |-> last,
              orders |-> [orders EXCEPT ![last].order_data = order_data,
                                        ![last].status = "active"]]

\* save_order without the rollback of its except branch: the row written
\* before the exception stays
save_order_no_rollback(user_id, order_data, delivery_date, delivery_time, dbok) ==
    [raised |-> ~dbok,
     order_id |-> IF dbok THEN Len(orders) + 1 ELSE 0,
     orders |-> Append(orders,
                  [order_id |-> Len(orders) + 1, user_id |-> user_id,
                   order_data |-> Jsonb(order_data),
                   delivery_date |-> delivery_date,
                   delivery_time |-> delivery_time, status |-> "active"])]

\* Database.save_order: INSERT ... RETURNING order_id, or rollback and raise.
\* dbok is whether the call returns: the except branch takes any exception,
\* the NameError of json.dumps (db.py does not import json) as a failure of
\* the database
save_order(user_id, order_data, delivery_date, delivery_time, dbok) ==
    IF dbok
    THEN [raised |-> FALSE,
          order_id |-> Len(orders) + 1,
          orders |-> Append(orders,
                       [order_id |-> Len(orders) + 1, user_id |-> user_id,
                        order_data |-> Jsonb(order_data),
                        delivery_date |-> delivery_date,
                        delivery_time |-> delivery_time, status |-> "active"])]
    ELSE [raised |-> TRUE, order_id |-> 0, orders |-> orders]

\* cancel_order that reports a row although its UPDATE changed none
cancel_order_no_update(order_id, dbok) ==
    [result |-> dbok /\ order_id \in 1..Len(orders), orders |-> orders]

\* cancel_order without "AND status = 'active'" in its WHERE clause
cancel_order_any_status(order_id, dbok) ==
    IF dbok /\ order_id \in 1..Len(orders)
    THEN [result |-> TRUE, orders |-> [orders EXCEPT ![order_id].status = "cancelled"]]
    ELSE [result |-> FALSE, orders |-> orders]

\* cancel_order whose UPDATE flips the status of the row, whatever it is
cancel_order_toggle(order_id, dbok) ==
    IF dbok /\ order_id \in 1..Len(orders)
    THEN [result |-> TRUE,
          orders |-> [orders EXCEPT ![order_id].status =
                         IF @ = "active" THEN "cancelled" ELSE "active"]]
    ELSE [result |-> FALSE, orders |-> orders]

\* Database.cancel_order: UPDATE ... WHERE order_id = %s AND status = 'active';
\* returns rows_affected > 0, and False on an exception
cancel_order(order_id, dbok) ==
    IF dbok /\ order_id \in 1..Len(orders) /\ orders[order_id].status = "active"
    THEN [result |-> TRUE, orders |-> [orders EXCEPT ![order_id].status = "cancelled"]]
    ELSE [result |-> FALSE, orders |-> orders]

\* the rows of get_active_order's WHERE clause
ActiveOrderIds(user_id) ==
    {k \in 1..Len(orders) : orders[k].user_id = user_id /\ orders[k].status = "active"}

\* Database.get_active_order: ORDER BY created_at DESC LIMIT 1 (rows are
\* inserted in the order of their created_at); None on no row or an exception
HasActiveOrder(user_id, dbok) == dbok /\ ActiveOrderIds(user_id) # {}

get_active_order(user_id) ==
    orders[CHOOSE k \in ActiveOrderIds(user_id) :
              \A j \in ActiveOrderIds(user_id) : j <= k]

-----------------------------------------------------------------------------
(* The chat: what the bot shows a user.  A button is its callback_data, the  *)
(* token and the argument that follows it.                                   *)

Button(data, arg) == [data |-> data, arg |-> arg]

Reply(text, keyboard) == [text |-> text, keyboard |-> keyboard]

\* update.message.reply_text / query.edit_message_text / query.answer(text);
\* a reply that ends its handler is taken as delivered, the awaits a handler
\* goes on after are the steps of `tasks`
Show(u, reply) == chat' = [chat EXCEPT ![u] = reply]

NoReply == Reply("", {})

-----------------------------------------------------------------------------
(* handlers.py: BotHandlers, the cart *)

\* self.user_carts.get(user_id, {}).get("items", [])
CartItems(carts, user_id) ==
    IF user_id \in DOMAIN carts THEN carts[user_id].items ELSE <<>>

\* show_cart (221-266)
CartView(carts, user_id) ==
    IF CartItems(carts, user_id) = <<>>
    THEN Reply("cart_empty", {})
    ELSE Reply("cart", {Button("prev_item", <<>>), Button("next_item", <<>>),
                        Button("remove_item", <<>>),
                        Button("select_delivery_date", <<>>)})

\* handle_product_message (199-219): a registered user's message whose first
\* line is a product title makes that product the pending one
handle_product_message(user_id, message_text, dbok) ==
    LET client == get_client(user_id, dbok)
        first_line == message_text[1]
    IN  /\ get_client_cache' = get_client_cached(user_id, dbok)
        /\ IF Falsy(client.organization)
           THEN /\ Show(user_id, Reply("register_first", {}))
                /\ UNCHANGED pending_product
           ELSE IF TitleKnown(first_line)
           THEN /\ pending_product' =
                       DictSet(pending_product, user_id, PRODUCTS_BY_TITLE(first_line))
                /\ Show(user_id, Reply("enter_quantity", {}))
           ELSE /\ Show(user_id, Reply("product_not_found", {}))
                /\ UNCHANGED pending_product
        /\ UNCHANGED <<dbVars, cartVars, selected_dates, last_orders, ADMIN_IDS,
                       regVars, now, admin_chat, tasks>>

\* config.py 29: range(3)
ENTER_QUANTITY == 2

\* ConversationHandler.END
END == 0 - 1

\* what handle_product_message returns (207, 216, 219)
handle_product_message_returns(user_id, message_text, dbok) ==
    IF Falsy(get_client(user_id, dbok).organization) THEN END
    ELSE IF TitleKnown(message_text[1]) THEN ENTER_QUANTITY
    ELSE END

\* the index (1-based) of the line of product, 0 when there is none:
\* for item in cart: if item["product"]["id"] == product["id"]
LineOf(cart, product) ==
    IF \E k \in 1..Len(cart) : cart[k].product.id = product.id
    THEN CHOOSE k \in 1..Len(cart) :
            /\ cart[k].product.id = product.id
            /\ \A j \in 1..(k - 1) : cart[j].product.id # product.id
    ELSE 0

\* the add that appends a line whether or not the product has one
AddToCart_append(cart, product, quantity) ==
    Append(cart, [product |-> product, quantity |-> quantity])

\* enter_quantity 160-166: increment the product's line or append a new one
AddToCart(cart, product, quantity) ==
    IF LineOf(cart, product) # 0
    THEN [cart EXCEPT ![LineOf(cart, product)].quantity = @ + quantity]
    ELSE Append(cart, [product |-> product, quantity |-> quantity])

\* enter_quantity 168: self.current_editing[user_id] = len(cart) - 1
CursorAfterAdd(cart) == Len(cart) - 1

\* an enter_quantity that ends the conversation whatever the text
enter_quantity_returns_end(user_id, quantity_text) == END

\* what enter_quantity returns (145, 149, 154, 172)
enter_quantity_returns(user_id, quantity_text) ==
    IF ~quantity_text.numeric \/ quantity_text.value <= 0 THEN ENTER_QUANTITY
    ELSE END

\* enter_quantity (136-172); quantity_text is [numeric, value]: int() raises
\* ValueError on a text that is no number
enter_quantity(user_id, quantity_text) ==
    IF ~quantity_text.numeric
    THEN /\ Show(user_id, Reply("enter_a_number", {}))
         /\ UNCHANGED <<dbVars, memVars, now, admin_chat>>
    ELSE IF quantity_text.value <= 0
    THEN /\ Show(user_id, Reply("quantity_must_be_positive", {}))
         /\ UNCHANGED <<dbVars, memVars, now, admin_chat>>
    ELSE IF user_id \notin DOMAIN pending_product
    THEN /\ Show(user_id, Reply("no_product_selected", {}))
         /\ UNCHANGED <<dbVars, memVars, now, admin_chat>>
    ELSE LET product == pending_product[user_id]
             cart == AddToCart(CartItems(user_carts, user_id), product,
                               quantity_text.value)
         IN  /\ user_carts' = DictSet(user_carts, user_id, [items |-> cart])
             /\ current_editing' = DictSet(current_editing, user_id, CursorAfterAdd(cart))
             /\ pending_product' = DictDel(pending_product, user_id)
             /\ Show(user_id, CartView(user_carts', user_id))
             /\ UNCHANGED <<dbVars, get_client_cache, selected_dates, last_orders,
                            ADMIN_IDS, regVars, now, admin_chat, tasks>>

\* bot.py handle_product_message (387-416), the one-step add of the older
\* bot: a registered user's product message adds one unit at once
bot_handle_product_message(user_id, message_text, dbok) ==
    LET client == get_client(user_id, dbok)
        first_line == message_text[1]
        cart == AddToCart(CartItems(user_carts, user_id),
                          PRODUCTS_BY_TITLE(first_line), 1)
    IN  /\ get_client_cache' = get_client_cached(user_id, dbok)
        /\ IF Falsy(client.organization)
           THEN /\ Show(user_id, Reply("register_first", {}))
                /\ UNCHANGED cartVars
           ELSE IF TitleKnown(first_line)
           THEN /\ user_carts' = DictSet(user_carts, user_id, [items |-> cart])
                /\ current_editing' =
                       DictSet(current_editing, user_id, CursorAfterAdd(cart))
                /\ Show(user_id, CartView(user_carts', user_id))
           ELSE /\ Show(user_id, Reply("product_not_found", {}))
                /\ UNCHANGED cartVars
        /\ UNCHANGED <<dbVars, selected_dates, last_orders, pending_product,
                       ADMIN_IDS, regVars, now, admin_chat, tasks>>

\* the remainder of a division that truncates: the result has the sign of x
PyMod_truncated(x, n) == IF x < 0 THEN 0 - ((0 - x) % n) ELSE x % n

\* x % n of Python: the result has the sign of n
PyMod(x, n) == x % n

\* handle_callback_query 456-461 and 463-468: prev_item (step -1), next_item (step 1)
move_cursor(user_id, step) ==
    LET cart == CartItems(user_carts, user_id)
    IN  IF user_id \in DOMAIN current_editing /\ cart # <<>>
        THEN /\ current_editing' =
                    [current_editing EXCEPT
                        ![user_id] = PyMod(current_editing[user_id] + step, Len(cart))]
             /\ Show(user_id, CartView(user_carts, user_id))
             /\ UNCHANGED <<dbVars, get_client_cache, user_carts, selected_dates,
                            last_orders, pending_product, ADMIN_IDS, regVars, now,
                            admin_chat, tasks>>
        ELSE UNCHANGED vars

prev_item(user_id) == move_cursor(user_id, -1)

next_item(user_id) == move_cursor(user_id, 1)

\* bot.py handle_callback_query 713-718: increase, one unit more on the line
\* of the cursor
increase(user_id) ==
    IF /\ user_id \in DOMAIN current_editing
       /\ user_id \in DOMAIN user_carts
       /\ current_editing[user_id] < Len(user_carts[user_id].items)
    THEN LET idx == current_editing[user_id]
         IN  /\ user_carts' =
                    [user_carts EXCEPT ![user_id].items[idx + 1].quantity = @ + 1]
             /\ Show(user_id, CartView(user_carts', user_id))
             /\ UNCHANGED <<dbVars, get_client_cache, current_editing,
                            selected_dates, last_orders, pending_product,
                            ADMIN_IDS, regVars, now, admin_chat, tasks>>
    ELSE UNCHANGED vars

\* decrease that takes a unit from any line that has one
decrease_to_zero(user_id) ==
    IF /\ user_id \in DOMAIN current_editing
       /\ user_id \in DOMAIN user_carts
       /\ current_editing[user_id] < Len(user_carts[user_id].items)
       /\ user_carts[user_id].items[current_editing[user_id] + 1].quantity > 0
    THEN LET idx == current_editing[user_id]
         IN  /\ user_carts' =
                    [user_carts EXCEPT ![user_id].items[idx + 1].quantity = @ - 1]
             /\ Show(user_id, CartView(user_carts', user_id))
             /\ UNCHANGED <<dbVars, get_client_cache, current_editing,
                            selected_dates, last_orders, pending_product,
                            ADMIN_IDS, regVars, now, admin_chat, tasks>>
    ELSE UNCHANGED vars

\* bot.py handle_callback_query 720-726: decrease, one unit less on the line
\* of the cursor when it has more than one
decrease(user_id) ==
    IF /\ user_id \in DOMAIN current_editing
       /\ user_id \in DOMAIN user_carts
       /\ current_editing[user_id] < Len(user_carts[user_id].items)
       /\ user_carts[user_id].items[current_editing[user_id] + 1].quantity > 1
    THEN LET idx == current_editing[user_id]
         IN  /\ user_carts' =
                    [user_carts EXCEPT ![user_id].items[idx + 1].quantity = @ - 1]
             /\ Show(user_id, CartView(user_carts', user_id))
             /\ UNCHANGED <<dbVars, get_client_cache, current_editing,
                            selected_dates, last_orders, pending_product,
                            ADMIN_IDS, regVars, now, admin_chat, tasks>>
    ELSE UNCHANGED vars

\* the cursor left where it was, without min(idx, len(cart) - 1)
CursorAfterRemove_no_clamp(cursors, user_id, idx, cart) ==
    IF cart # <<>> THEN cursors ELSE DictDel(cursors, user_id)

\* handle_callback_query 476-479: the cursor once the line at idx is deleted
CursorAfterRemove(cursors, user_id, idx, cart) ==
    IF cart # <<>>
    THEN [cursors EXCEPT ![user_id] = Min(idx, Len(cart) - 1)]
    ELSE DictDel(cursors, user_id)

\* handle_callback_query 470-480: remove_item
remove_item(user_id) ==
    IF /\ user_id \in DOMAIN current_editing
       /\ current_editing[user_id] < Len(CartItems(user_carts, user_id))
    THEN LET idx == current_editing[user_id]
             cart == ListDel(CartItems(user_carts, user_id), idx)
         IN  /\ user_carts' = [user_carts EXCEPT ![user_id].items = cart]
             /\ current_editing' = CursorAfterRemove(current_editing, user_id, idx, cart)
             /\ Show(user_id, CartView(user_carts', user_id))
             /\ UNCHANGED <<dbVars, get_client_cache, selected_dates, last_orders,
                            pending_product, ADMIN_IDS, regVars, now, admin_chat, tasks>>
    ELSE UNCHANGED vars

-----------------------------------------------------------------------------
(* handlers.py: BotHandlers, the delivery slot *)

\* show_delivery_dates (268-279): the 7 dates from tomorrow on
DateKeyboard ==
    {Button("delivery_date", <<Today + i>>) : i \in 1..7}
        \cup {Button("back_to_cart", <<>>)}

\* show_delivery_times (281-292)
TimeKeyboard ==
    {Button("delivery_time", DELIVERY_TIME_INTERVALS[i]) :
        i \in 1..Len(DELIVERY_TIME_INTERVALS)}
        \cup {Button("back_to_dates", <<>>)}

\* handle_callback_query 482-483, 488-489: select_delivery_date, back_to_dates
show_delivery_dates(user_id) ==
    /\ Show(user_id, Reply("choose_date", DateKeyboard))
    /\ UNCHANGED <<dbVars, memVars, now, admin_chat>>

\* handle_callback_query 485-486: back_to_cart
back_to_cart(user_id) ==
    /\ Show(user_id, CartView(user_carts, user_id))
    /\ UNCHANGED <<dbVars, memVars, now, admin_chat>>

\* handle_callback_query 491-494: delivery_date_<date_str>
select_date(user_id, date_str) ==
    /\ selected_dates' = DictSet(selected_dates, user_id, date_str)
    /\ Show(user_id, Reply("choose_time", TimeKeyboard))
    /\ UNCHANGED <<dbVars, get_client_cache, cartVars, last_orders, pending_product,
                   ADMIN_IDS, regVars, now, admin_chat, tasks>>

-----------------------------------------------------------------------------
(* handlers.py: BotHandlers, commit *)

\* query.from_user.username
Username(user_id) == IF user_id = 1 THEN "ivanov" ELSE None

\* process_delivery_time 316-327: the order lines and the delivery info
OrderText(cart, date_str, time_str) ==
    [lines |-> [k \in 1..Len(cart) |->
                   [title |-> cart[k].product.title, quantity |-> cart[k].quantity]],
     date |-> ParseDate(date_str), time |-> time_str]

\* process_delivery_time 329-334
OrderData(cart, client, username) ==
    [items |-> [k \in 1..Len(cart) |->
                   [product |-> cart[k].product, quantity |-> cart[k].quantity]],
     organization |-> client.organization,
     contact_person |-> client.contact_person,
     username |-> username]

\* process_delivery_time 344-349
Handle(order_id, order_text, delivery_datetime) ==
    [order_id |-> order_id, order_text |-> order_text,
     delivery_datetime |-> delivery_datetime, admin_message_ids |-> EmptyDict]

\* the cutoff test with >= for >: exactly six hours would pass
CanCancel_inclusive(delivery_datetime) == delivery_datetime - now >= CancelCutoff

\* the cutoff test with twelve hours for six
CanCancel_twelve(delivery_datetime) == delivery_datetime - now > 2 * CancelCutoff

\* time_left > timedelta(hours=6): the test of 357, 406 and 556, negated there
CanCancel(delivery_datetime) == delivery_datetime - now > CancelCutoff

\* a suspended handler: its kind, where it waits and its local variables
Task(kind, pc, user_id, order_data, can_cancel, i, admin_id, reply_to) ==
    [kind |-> kind, pc |-> pc, user_id |-> user_id, order_data |-> order_data,
     can_cancel |-> can_cancel, i |-> i, admin_id |-> admin_id,
     reply_to |-> reply_to]

\* the session cleared with = {} in place of the user's own keys: every
\* user's cart and pending date go
ClearSession_everyone(user_id) ==
    /\ user_carts' = [u \in DOMAIN user_carts \cup {user_id} |-> [items |-> <<>>]]
    /\ selected_dates' = EmptyDict

\* process_delivery_time 390-391
ClearSession(user_id) ==
    /\ user_carts' = DictSet(user_carts, user_id, [items |-> <<>>])
    /\ selected_dates' = DictDel(selected_dates, user_id)

\* selected_dates.get(user_id) with a default in place of None
selected_dates_get_default(user_id) ==
    IF user_id \in DOMAIN selected_dates THEN <<selected_dates[user_id]>>
    ELSE <<Today + 1>>

\* self.selected_dates.get(user_id) of 300: <<>> is None, <<d>> the date d
selected_dates_get(user_id) ==
    IF user_id \in DOMAIN selected_dates THEN <<selected_dates[user_id]>>
    ELSE <<>>

\* process_delivery_time 294-361: from the event to the await of the
\* confirmation edit; a ValueError of strptime (318, 320) leaves the method
\* and is answered by the except branch of handle_callback_query (524-526)
process_delivery_time(user_id, time_str, cdb, sdb) ==
    IF \/ selected_dates_get(user_id) = <<>>
       \/ EmptyText(selected_dates_get(user_id)[1])
    THEN /\ Show(user_id, Reply("date_not_selected", {}))
         /\ UNCHANGED <<dbVars, memVars, now, admin_chat>>
    ELSE
    LET date_str == selected_dates_get(user_id)[1]
        client == get_client(user_id, cdb)
        cart == CartItems(user_carts, user_id)
        delivery_datetime == ParseDateTime(date_str, StartTimeStr(time_str))
        order_text == OrderText(cart, date_str, time_str)
        order_data == OrderData(cart, client, Username(user_id))
        saved == save_order(user_id, order_data, date_str, time_str, sdb)
    IN  /\ get_client_cache' = get_client_cached(user_id, cdb)
        /\ IF Falsy(client.organization)
           THEN /\ Show(user_id, Reply("register_before_ordering", {}))
                /\ UNCHANGED <<dbVars, last_orders, tasks>>
           ELSE IF cart = <<>>
           THEN /\ Show(user_id, Reply("cart_empty", {}))
                /\ UNCHANGED <<dbVars, last_orders, tasks>>
           ELSE IF ~IsDate(date_str) \/ ~IsTime(StartTimeStr(time_str))
           THEN /\ Show(user_id, Reply("error_try_later", {}))
                /\ UNCHANGED <<dbVars, last_orders, tasks>>
           ELSE IF saved.raised
           THEN /\ orders' = saved.orders
                /\ Show(user_id, Reply("save_failed", {}))
                /\ UNCHANGED <<clients, pool, last_orders, tasks>>
           ELSE /\ orders' = saved.orders
                /\ last_orders' =
                       DictSet(last_orders, user_id,
                               Handle(saved.order_id, order_text, delivery_datetime))
                /\ tasks' = tasks \cup
                       {Task("commit", "confirm", user_id,
                             Handle(saved.order_id, order_text, delivery_datetime),
                             CanCancel(delivery_datetime), 0, 0, 0)}
                /\ UNCHANGED <<clients, pool, chat>>
        /\ UNCHANGED <<cartVars, selected_dates, pending_product, ADMIN_IDS,
                       regVars, now, admin_chat>>

\* handle_callback_query 524-526: the reply of the except branch, which may
\* itself not get through
ErrorReply(user_id, delivered) ==
    IF delivered THEN Show(user_id, Reply("error_try_later", {}))
    ELSE UNCHANGED chat

\* a send whose text carries no order number
Sent_without_id(admin_id, kind, order_id, reply_to, delivered) ==
    admin_chat' = [admin_chat EXCEPT ![admin_id] =
        Append(@, [kind |-> kind, order_id |-> 0, reply_to |-> reply_to,
                   delivered |-> delivered])]

\* one send_message call to an admin chat, delivered or raised
Sent(admin_id, kind, order_id, reply_to, delivered) ==
    admin_chat' = [admin_chat EXCEPT ![admin_id] =
        Append(@, [kind |-> kind, order_id |-> order_id, reply_to |-> reply_to,
                   delivered |-> delivered])]

\* process_delivery_time 361-365, 390-391: the confirmation edit returns or
\* raises; with no admin the handler ends here
commit_confirm(t, delivered, error_delivered) ==
    /\ t \in tasks /\ t.kind = "commit" /\ t.pc = "confirm"
    /\ IF ~delivered
       THEN /\ ErrorReply(t.user_id, error_delivered)
            /\ tasks' = tasks \ {t}
            /\ UNCHANGED <<user_carts, selected_dates>>
       ELSE /\ Show(t.user_id,
                    Reply("order_confirmed",
                          IF t.can_cancel THEN {Button("cancel_last_order", <<>>)}
                          ELSE {}))
            /\ IF ADMIN_IDS # <<>>
               THEN /\ tasks' = (tasks \ {t}) \cup
                          {[t EXCEPT !.pc = "notify", !.i = 1, !.admin_id = ADMIN_IDS[1]]}
                    /\ UNCHANGED <<user_carts, selected_dates>>
               ELSE /\ tasks' = tasks \ {t}
                    /\ ClearSession(t.user_id)
    /\ UNCHANGED <<dbVars, get_client_cache, current_editing, last_orders,
                   pending_product, ADMIN_IDS, regVars, now, admin_chat>>

\* the handle a cancel task holds is the object in last_orders while that one
\* has its order_id: a message id stored through last_orders shows in both
Aliased(ts, user_id, order_id, admin_id, message_id) ==
    {IF t.kind = "cancel" /\ t.user_id = user_id /\ t.order_data.order_id = order_id
     THEN [t EXCEPT !.order_data.admin_message_ids =
                        DictSet(@, admin_id, message_id)]
     ELSE t : t \in ts}

\* process_delivery_time 376-391: a send to an admin returns or raises, then
\* the next admin's send starts or the session is cleared
commit_notify(t, delivered) ==
    /\ t \in tasks /\ t.kind = "commit" /\ t.pc = "notify"
    /\ Sent(t.admin_id, "new_order", t.order_data.order_id, 0, delivered)
    /\ LET message_id == Len(admin_chat[t.admin_id]) + 1
           stored == delivered /\ t.user_id \in DOMAIN last_orders
           rest == IF stored
                   THEN Aliased(tasks \ {t}, t.user_id,
                                last_orders[t.user_id].order_id, t.admin_id, message_id)
                   ELSE tasks \ {t}
       IN  /\ last_orders' =
                  IF stored
                  THEN [last_orders EXCEPT ![t.user_id].admin_message_ids =
                                               DictSet(@, t.admin_id, message_id)]
                  ELSE last_orders
           /\ IF t.i < Len(ADMIN_IDS)
              THEN /\ tasks' = rest \cup
                         {[t EXCEPT !.i = t.i + 1, !.admin_id = ADMIN_IDS[t.i + 1]]}
                   /\ UNCHANGED <<user_carts, selected_dates>>
              ELSE /\ tasks' = rest
                   /\ ClearSession(t.user_id)
    /\ UNCHANGED <<dbVars, get_client_cache, current_editing, pending_product,
                   ADMIN_IDS, regVars, now, chat>>

-----------------------------------------------------------------------------
(* handlers.py: BotHandlers, cancel *)

\* order_data["admin_message_ids"].get(admin_id); 0 is None
ReplyTo(order_data, admin_id) ==
    IF admin_id \in DOMAIN order_data.admin_message_ids
    THEN order_data.admin_message_ids[admin_id]
    ELSE 0

\* cancel_last_order (393-441): from the event to the await of the first
\* cancellation notice, or of the final edit when there is no admin
cancel_last_order(user_id, dbok) ==
    IF user_id \notin DOMAIN last_orders
    THEN /\ Show(user_id, Reply("no_orders_to_cancel", {}))
         /\ UNCHANGED <<dbVars, memVars, now, admin_chat>>
    ELSE
    LET order_data == last_orders[user_id]
        cancelled == cancel_order(order_data.order_id, dbok)
    IN  IF ~CanCancel(order_data.delivery_datetime)
        THEN /\ Show(user_id, Reply("too_late_to_cancel", {}))
             /\ UNCHANGED <<dbVars, memVars, now, admin_chat>>
        ELSE IF ~cancelled.result
        THEN /\ Show(user_id, Reply("cancel_failed", {}))
             /\ UNCHANGED <<dbVars, memVars, now, admin_chat>>
        ELSE /\ orders' = cancelled.orders
             /\ tasks' = tasks \cup
                   {IF ADMIN_IDS # <<>>
                    THEN Task("cancel", "notify", user_id, order_data, FALSE, 1,
                              ADMIN_IDS[1], ReplyTo(order_data, ADMIN_IDS[1]))
                    ELSE Task("cancel", "final", user_id, order_data, FALSE, 0, 0, 0)}
             /\ UNCHANGED <<clients, pool, get_client_cache, cartVars, selected_dates,
                            last_orders, pending_product, ADMIN_IDS, regVars, now, outVars>>

\* bot.py cancel_last_order (636-686): the same tests, then one notice to
\* ADMIN_IDS[0] if the handle has the key "admin_message_id"; no commit stores
\* that key (bot.py 583-587, handlers.py 344-349), so the handler goes to its
\* final edit
bot_cancel_last_order(user_id, dbok) ==
    IF user_id \notin DOMAIN last_orders
    THEN /\ Show(user_id, Reply("no_orders_to_cancel", {}))
         /\ UNCHANGED <<dbVars, memVars, now, admin_chat>>
    ELSE
    LET order_data == last_orders[user_id]
        cancelled == cancel_order(order_data.order_id, dbok)
    IN  IF ~CanCancel(order_data.delivery_datetime)
        THEN /\ Show(user_id, Reply("too_late_to_cancel", {}))
             /\ UNCHANGED <<dbVars, memVars, now, admin_chat>>
        ELSE IF ~cancelled.result
        THEN /\ Show(user_id, Reply("cancel_failed", {}))
             /\ UNCHANGED <<dbVars, memVars, now, admin_chat>>
        ELSE /\ orders' = cancelled.orders
             /\ tasks' = tasks \cup
                   {Task("cancel", "final", user_id, order_data, FALSE, 0, 0, 0)}
             /\ UNCHANGED <<clients, pool, get_client_cache, cartVars, selected_dates,
                            last_orders, pending_product, ADMIN_IDS, regVars, now, outVars>>

\* cancel_last_order 427-441: a cancellation notice returns or raises, then
\* the next admin's send or the final edit starts
cancel_notify(t, delivered) ==
    /\ t \in tasks /\ t.kind = "cancel" /\ t.pc = "notify"
    /\ Sent(t.admin_id, "cancelled", t.order_data.order_id, t.reply_to, delivered)
    /\ tasks' = (tasks \ {t}) \cup
          {IF t.i < Len(ADMIN_IDS)
           THEN [t EXCEPT !.i = t.i + 1, !.admin_id = ADMIN_IDS[t.i + 1],
                          !.reply_to = ReplyTo(t.order_data, ADMIN_IDS[t.i + 1])]
           ELSE [t EXCEPT !.pc = "final"]}
    /\ UNCHANGED <<dbVars, get_client_cache, cartVars, selected_dates, last_orders,
                   pending_product, ADMIN_IDS, regVars, now, chat>>

\* cancel_last_order 441-446: the final edit returns or raises; then
\* del self.last_orders[user_id], a KeyError when the key is gone
cancel_final(t, delivered, error_delivered) ==
    /\ t \in tasks /\ t.kind = "cancel" /\ t.pc = "final"
    /\ tasks' = tasks \ {t}
    /\ IF ~delivered
       THEN /\ ErrorReply(t.user_id, error_delivered)
            /\ UNCHANGED last_orders
       ELSE IF t.user_id \in DOMAIN last_orders
       THEN /\ Show(t.user_id, Reply("order_cancelled", {}))
            /\ last_orders' = DictDel(last_orders, t.user_id)
       ELSE /\ IF error_delivered
               THEN Show(t.user_id, Reply("error_try_later", {}))
               ELSE Show(t.user_id, Reply("order_cancelled", {}))
            /\ UNCHANGED last_orders
    /\ UNCHANGED <<dbVars, get_client_cache, cartVars, selected_dates,
                   pending_product, ADMIN_IDS, regVars, now, admin_chat>>

-----------------------------------------------------------------------------
(* handlers.py: BotHandlers, the active order *)

\* show_active_orders (528-564): my_orders
show_active_orders(user_id, dbok) ==
    /\ IF ~HasActiveOrder(user_id, dbok)
       THEN Show(user_id, Reply("no_active_orders", {Button("back_to_menu", <<>>)}))
       ELSE LET order == get_active_order(user_id)
                delivery_datetime ==
                    ParseDateTime(order.delivery_date, StartTimeStr(order.delivery_time))
            IN  Show(user_id,
                     Reply("active_order",
                           (IF CanCancel(delivery_datetime)
                            THEN {Button("cancel_order", <<order.order_id>>)}
                            ELSE {})
                           \cup {Button("back_to_menu", <<>>)}))
    /\ UNCHANGED <<dbVars, memVars, now, admin_chat>>

\* the tokens handle_callback_query (456-522) has a branch for
HandledTokens ==
    {"prev_item", "next_item", "remove_item", "select_delivery_date",
     "back_to_cart", "back_to_dates", "delivery_date", "delivery_time",
     "cancel_last_order", "my_orders", "catalog", "about", "back_to_menu"}

\* handle_callback_query 448-526 on a token no branch matches: the if/elif
\* chain falls through
unhandled_callback(user_id, button) ==
    /\ button.data \notin HandledTokens
    /\ UNCHANGED vars

\* handle_callback_query (448-526): the branch of the token; cdb, sdb and dbok
\* are whether the handler's get_client, save_order and other statements run
handle_callback_query(user_id, button, cdb, sdb, dbok) ==
    \/ button.data = "prev_item" /\ prev_item(user_id)
    \/ button.data = "next_item" /\ next_item(user_id)
    \/ button.data = "remove_item" /\ remove_item(user_id)
    \/ button.data \in {"select_delivery_date", "back_to_dates"}
          /\ show_delivery_dates(user_id)
    \/ button.data = "back_to_cart" /\ back_to_cart(user_id)
    \/ button.data = "delivery_date" /\ select_date(user_id, button.arg[1])
    \/ button.data = "delivery_time"
          /\ process_delivery_time(user_id, button.arg, cdb, sdb)
    \/ button.data = "cancel_last_order" /\ cancel_last_order(user_id, dbok)
    \/ button.data = "my_orders" /\ show_active_orders(user_id, dbok)
    \/ unhandled_callback(user_id, button)

-----------------------------------------------------------------------------
(* The environment *)

\* time passes
Tick ==
    /\ now + ClockStep <= StartTime + MaxTicks * ClockStep
    /\ now' = now + ClockStep
    /\ UNCHANGED <<dbVars, memVars, outVars>>

\* the process stops and starts again: BotHandlers.__init__ (18-24) with a
\* new Database, the module state of config.py, an empty lru_cache and no
\* conversation (persistent=False); the tables and the messages already in
\* the chats stay
Restart(configured) ==
    /\ get_client_cache' = EmptyDict
    /\ user_carts' = EmptyDict
    /\ current_editing' = EmptyDict
    /\ selected_dates' = EmptyDict
    /\ last_orders' = EmptyDict
    /\ pending_product' = EmptyDict
    /\ conversation' = EmptyDict
    /\ user_data' = EmptyDict
    /\ ADMIN_IDS' = configured
    /\ tasks' = {}
    /\ pool' = Database_init
    /\ UNCHANGED <<clients, orders, now, outVars>>

\* the first start, with ADMIN_CHAT_ID as configured: user 1 registered
\* earlier, no order yet
InitWith(configured) ==
    /\ clients = [u \in {1} |-> Profile(u)]
    /\ orders = <<>>
    /\ pool = Database_init
    /\ get_client_cache = EmptyDict
    /\ user_carts = EmptyDict
    /\ current_editing = EmptyDict
    /\ selected_dates = EmptyDict
    /\ last_orders = EmptyDict
    /\ pending_product = EmptyDict
    /\ conversation = EmptyDict
    /\ user_data = EmptyDict
    /\ ADMIN_IDS = configured
    /\ now = StartTime
    /\ chat = [u \in Users |-> NoReply]
    /\ admin_chat = [a \in Admins |-> <<>>]
    /\ tasks = {}

\* lru_cache(maxsize=100) of get_client: the lookups of other users push the
\* entry of user_id out
Evict(user_id) ==
    /\ user_id \in DOMAIN get_client_cache
    /\ get_client_cache' = DictDel(get_client_cache, user_id)
    /\ UNCHANGED <<dbVars, user_carts, current_editing, selected_dates,
                   last_orders, pending_product, ADMIN_IDS, tasks, regVars, now, outVars>>

-----------------------------------------------------------------------------
(* Inputs *)

\* an inline result's message: the title, then the description
ProductMessage(k) == <<Titles[k], "description">>

NotANumber == [numeric |-> FALSE, value |-> 0]

Number(n) == [numeric |-> TRUE, value |-> n]

\* the quantity the pending product's line has now
PendingQty(u) ==
    IF u \in DOMAIN pending_product
          /\ LineOf(CartItems(user_carts, u), pending_product[u]) # 0
    THEN CartItems(user_carts, u)[LineOf(CartItems(user_carts, u),
                                         pending_product[u])].quantity
    ELSE 0

\* the first interval: with ClockStep it puts the clock exactly on the cutoff
TimeInputs == {DELIVERY_TIME_INTERVALS[1]}

\* the handlers run one at a time
Idle == tasks = {}

-----------------------------------------------------------------------------
(* Spec: one user's orders from the cart to the cancellation, the handlers   *)
(* run one at a time, the clock runs, the database and the sends may fail,   *)
(* the process may restart.  The cart is one line of one product, there is   *)
(* one admin chat.                                                           *)

Init == InitWith(<<8>>)

AddProduct(u) == Idle /\ handle_product_message(u, ProductMessage(1), TRUE)

EnterOne(u) == Idle /\ PendingQty(u) = 0 /\ enter_quantity(u, Number(1))

Press(u, button, sdb, dbok) == handle_callback_query(u, button, TRUE, sdb, dbok)

SelectDate(u) == Idle /\ Press(u, Button("delivery_date", <<1>>), TRUE, TRUE)

Commit(u) ==
    /\ Idle
    /\ Len(orders) < MaxOrders
    /\ \E time_str \in TimeInputs, sdb \in BOOLEAN :
          Press(u, Button("delivery_time", time_str), sdb, TRUE)

Cancel(u) ==
    Idle /\ \E dbok \in BOOLEAN : Press(u, Button("cancel_last_order", <<>>), TRUE, dbok)

MyOrders(u) == Idle /\ Press(u, Button("my_orders", <<>>), TRUE, TRUE)

\* the cancel button of the active-order view, while it is on the screen
CancelOrderButton(u) ==
    /\ Idle
    /\ \E b \in chat[u].keyboard :
          b.data = "cancel_order" /\ Press(u, b, TRUE, TRUE)

TaskStep ==
    \E t \in tasks, delivered \in BOOLEAN :
        \/ commit_confirm(t, delivered, TRUE)
        \/ commit_notify(t, delivered)
        \/ cancel_notify(t, delivered)
        \/ cancel_final(t, delivered, TRUE)

Next ==
    \/ \E u \in {1} :
          \/ AddProduct(u)
          \/ EnterOne(u)
          \/ SelectDate(u)
          \/ Commit(u)
          \/ Cancel(u)
          \/ MyOrders(u)
          \/ CancelOrderButton(u)
    \/ TaskStep
    \/ Tick
    \/ Restart(<<8>>)

Spec == Init /\ [][Next]_vars

-----------------------------------------------------------------------------
(* Properties of Spec *)

\* the time left to the start of ledger row k's delivery, from the row's own
\* date and interval
TimeLeft(k) ==
    ParseDateTime(orders[k].delivery_date, StartTimeStr(orders[k].delivery_time)) - now

SixHours == 6 * MinutesPerHour

\* the cancellation notices for order k in an admin's chat
Notices(admin_id, k) ==
    {i \in 1..Len(admin_chat[admin_id]) :
        /\ admin_chat[admin_id][i].kind = "cancelled"
        /\ admin_chat[admin_id][i].order_id = k}

\* C1: an order whose delivery starts more than six hours from now is
\* cancelled exactly once.  While the ledger statement runs, a
\* cancel_last_order on an active order with more than six hours left sets
\* exactly that row to cancelled and goes on to the notices; every attempt on
\* an order already cancelled, and every attempt without a handle, reports a
\* failure and changes neither the ledger nor the handlers in flight; a
\* cancelled row never leaves cancelled; and no admin chat gets two
\* cancellation notices for one order.
C1_CancelSucceedsOnce ==
    /\ [](\A a \in Admins, k \in 1..Len(orders) : Cardinality(Notices(a, k)) <= 1)
    /\ [][/\ \A u \in Users :
               IF u \in DOMAIN last_orders
               THEN LET k == last_orders[u].order_id
                    IN  /\ (/\ orders[k].status = "active"
                            /\ TimeLeft(k) > SixHours
                            /\ cancel_last_order(u, TRUE))
                           => /\ orders' = [orders EXCEPT ![k].status = "cancelled"]
                              /\ \E t \in tasks' \ tasks :
                                    t.kind = "cancel" /\ t.order_data.order_id = k
                        /\ (/\ orders[k].status = "cancelled"
                            /\ \E dbok \in BOOLEAN : cancel_last_order(u, dbok))
                           => /\ orders' = orders
                              /\ tasks' = tasks
                              /\ chat'[u].text \in {"cancel_failed", "too_late_to_cancel"}
               ELSE (\E dbok \in BOOLEAN : cancel_last_order(u, dbok))
                    => /\ orders' = orders
                       /\ tasks' = tasks
                       /\ chat'[u].text = "no_orders_to_cancel"
          /\ \A j \in 1..Len(orders) :
               orders[j].status = "cancelled"
               => Len(orders') >= j /\ orders'[j].status = "cancelled"]_vars

\* a second attempt on a cancelled order with time to spare was turned down:
\* the handle is still there because the first attempt's final edit failed
C1_SecondAttemptRefused ==
    \E u \in Users :
        /\ u \in DOMAIN last_orders
        /\ orders[last_orders[u].order_id].status = "cancelled"
        /\ TimeLeft(last_orders[u].order_id) > SixHours
        /\ Cardinality(Notices(8, last_orders[u].order_id)) = 1
        /\ tasks = {}
        /\ chat[u].text = "cancel_failed"

\* C2: a cancel_last_order made when the order's delivery starts in six hours
\* or less, exactly six included, is turned down with the clock read at the
\* attempt: the ledger, the handle and the handlers in flight stay as they
\* were and the user is told it is too late.
C2_TooLateRejected ==
    [][\A u \in Users, dbok \in BOOLEAN :
          (/\ u \in DOMAIN last_orders
           /\ TimeLeft(last_orders[u].order_id) <= SixHours
           /\ cancel_last_order(u, dbok))
          => /\ orders' = orders
             /\ last_orders' = last_orders
             /\ tasks' = tasks
             /\ admin_chat' = admin_chat
             /\ chat'[u].text = "too_late_to_cancel"]_vars

\* an order still active was refused with exactly six hours left
C2_RefusedAtSixHours ==
    \E u \in Users :
        /\ u \in DOMAIN last_orders
        /\ orders[last_orders[u].order_id].status = "active"
        /\ TimeLeft(last_orders[u].order_id) = SixHours
        /\ chat[u].text = "too_late_to_cancel"

\* C3: when save_order raises in a commit that got as far as the save (a date
\* chosen, the client registered, the cart not empty), the cart, the cursor
\* and the chosen date are unchanged, no handle is recorded, the ledger has no
\* new row, no admin is notified and no handler stays in flight.
C3_FailedSaveKeepsSession ==
    [][\A u \in Users, time_str \in TimeInputs :
          (/\ u \in DOMAIN selected_dates
           /\ ~Falsy(get_client(u, TRUE).organization)
           /\ CartItems(user_carts, u) # <<>>
           /\ process_delivery_time(u, time_str, TRUE, FALSE))
          => /\ user_carts' = user_carts
             /\ current_editing' = current_editing
             /\ selected_dates' = selected_dates
             /\ last_orders' = last_orders
             /\ orders' = orders
             /\ admin_chat' = admin_chat
             /\ tasks' = tasks]_vars

\* a commit failed at the save with nothing in the ledger: the cart and the
\* date are still there
C3_SaveFailed ==
    \E u \in Users :
        /\ chat[u].text = "save_failed"
        /\ CartItems(user_carts, u) # <<>>
        /\ u \in DOMAIN selected_dates
        /\ u \notin DOMAIN last_orders
        /\ orders = <<>>


\* the commit handler of task t ends in this step: its last await returned or
\* raised and no task of its order is left
CommitEnds(t) ==
    /\ t \in tasks
    /\ t.kind = "commit"
    /\ \E delivered \in BOOLEAN :
          commit_confirm(t, delivered, TRUE) \/ commit_notify(t, delivered)
    /\ ~\E t2 \in tasks' :
          t2.kind = "commit" /\ t2.order_data.order_id = t.order_data.order_id

\* C4: whenever a commit has written its order, the handler ends with the
\* user's cart empty, the chosen date cleared and the handle holding the
\* order's id, also when the confirmation edit or a send to an admin fails.
C4_CommitEndsClean ==
    [][\A t \in tasks :
          CommitEnds(t)
          => /\ CartItems(user_carts', t.user_id) = <<>>
             /\ t.user_id \notin DOMAIN selected_dates'
             /\ t.user_id \in DOMAIN last_orders'
             /\ last_orders'[t.user_id].order_id = t.order_data.order_id]_vars

\* a commit wrote its order and ended on the error reply: the cart and the
\* date are still there
C4_OrderSavedCartKept ==
    \E u \in Users :
        /\ tasks = {}
        /\ chat[u].text = "error_try_later"
        /\ u \in DOMAIN last_orders
        /\ orders[last_orders[u].order_id].status = "active"
        /\ Notices(8, last_orders[u].order_id) = {}
        /\ CartItems(user_carts, u) # <<>>
        /\ u \in DOMAIN selected_dates

\* C7: after a restart, a user whose active order starts more than six hours
\* from now cancels it with the cancel_order button of the active-order view:
\* while that button is on the screen and the handle is gone, the handler of
\* the button's press has a step that sets the order to cancelled.
C7_CancelAfterRestart ==
    \A u \in Users : \A b \in chat[u].keyboard :
        (/\ b.data = "cancel_order"
         /\ tasks = {}
         /\ u \notin DOMAIN last_orders
         /\ b.arg[1] \in ActiveOrderIds(u)
         /\ TimeLeft(b.arg[1]) > SixHours)
        => ENABLED (/\ \E dbok \in BOOLEAN :
                          handle_callback_query(u, b, TRUE, TRUE, dbok)
                    /\ orders'[b.arg[1]].status = "cancelled")

\* after a restart the active-order view offers the button for an order with
\* time to spare, and the handle is gone
C7_ButtonOfferedAfterRestart ==
    \E u \in Users : \E b \in chat[u].keyboard :
        /\ b.data = "cancel_order"
        /\ tasks = {}
        /\ u \notin DOMAIN last_orders
        /\ b.arg[1] \in ActiveOrderIds(u)
        /\ TimeLeft(b.arg[1]) > SixHours


\* C14: the status of a ledger row only moves from active to cancelled: in
\* every step each row keeps its place and its order_id, and its status stays
\* or goes from active to cancelled; no row is removed; and cancel_order on an
\* order_id the ledger does not hold, or on a row already cancelled, returns
\* False and changes no row.
C14_StatusOnlyToCancelled ==
    /\ [](\A order_id \in 0..(Len(orders) + 1), dbok \in BOOLEAN :
             (order_id \notin 1..Len(orders) \/ orders[order_id].status = "cancelled")
             => cancel_order(order_id, dbok) = [result |-> FALSE, orders |-> orders])
    /\ [][/\ Len(orders') >= Len(orders)
          /\ \A k \in 1..Len(orders) :
                /\ orders'[k].order_id = orders[k].order_id
                /\ orders[k].status \in {"active", "cancelled"}
                /\ \/ orders'[k].status = orders[k].status
                   \/ orders[k].status = "active" /\ orders'[k].status = "cancelled"]_vars

\* the process restarted with a cancelled row in the ledger, after a cancel
\* of the cancelled row was refused
C14_CancelledRowKept ==
    /\ Len(orders) = 1
    /\ orders[1].status = "cancelled"
    /\ last_orders = EmptyDict
    /\ user_carts = EmptyDict
    /\ chat[1].text = "cancel_failed"

\* C16: the cancel action is offered exactly when a cancel at that instant
\* would pass the cutoff.  The commit decides on the cancel_last_order button
\* of its confirmation by whether the new row's delivery starts more than six
\* hours from now, and the confirmation shows the button iff it decided so;
\* the active-order view has its cancel button iff the delivery of the order
\* it shows starts more than six hours from now; and cancel_last_order
\* refuses as too late iff the delivery of the handle's order does not.
C16_OfferedIffCancellable ==
    /\ [][\A u \in Users, time_str \in TimeInputs, sdb \in BOOLEAN :
             (process_delivery_time(u, time_str, TRUE, sdb) /\ Len(orders') > Len(orders))
             => \A t \in tasks' \ tasks :
                   t.can_cancel <=> (TimeLeft(Len(orders)) > SixHours)']_vars
    /\ [][\A t \in tasks :
             commit_confirm(t, TRUE, TRUE)
             => (Button("cancel_last_order", <<>>) \in chat'[t.user_id].keyboard
                    <=> t.can_cancel)]_vars
    /\ [][\A u \in Users :
             (show_active_orders(u, TRUE) /\ ActiveOrderIds(u) # {})
             => ((\E b \in chat'[u].keyboard : b.data = "cancel_order")
                    <=> TimeLeft(get_active_order(u).order_id) > SixHours)]_vars
    /\ [][\A u \in Users, dbok \in BOOLEAN :
             (u \in DOMAIN last_orders /\ cancel_last_order(u, dbok))
             => (chat'[u].text = "too_late_to_cancel"
                    <=> ~(TimeLeft(last_orders[u].order_id) > SixHours))]_vars

\* the active-order view of an order whose delivery starts in exactly six
\* hours: no cancel button
C16_NotOfferedAtSixHours ==
    \E u \in Users :
       /\ chat[u].text = "active_order"
       /\ ~\E b \in chat[u].keyboard : b.data = "cancel_order"
       /\ ActiveOrderIds(u) # {}
       /\ TimeLeft(get_active_order(u).order_id) = SixHours

\* C35: whenever no handler of user u is in progress and u has a last-order
\* handle, the handle's order_id is a row of u in the ledger, the row is
\* active, it is the latest row of u, and it is the row get_active_order(u)
\* returns.
C35_HandleIsActiveLatest ==
    \A u \in Users :
        ((\A t \in tasks : t.user_id # u) /\ u \in DOMAIN last_orders)
        => LET k == last_orders[u].order_id
           IN  /\ k \in 1..Len(orders)
               /\ orders[k].user_id = u
               /\ orders[k].status = "active"
               /\ \A j \in 1..Len(orders) : orders[j].user_id = u => j <= k
               /\ HasActiveOrder(u, TRUE)
               /\ get_active_order(u).order_id = k

\* no handler is in progress, the user has a handle and the handle's order
\* is cancelled in the ledger
C35_HandleOfCancelledOrder ==
    \E u \in Users :
        /\ tasks = {}
        /\ u \in DOMAIN last_orders
        /\ orders[last_orders[u].order_id].status = "cancelled"
        /\ ~HasActiveOrder(u, TRUE)

\* the last message of an admin's chat after a step that sent one
Newest(a) == admin_chat'[a][Len(admin_chat'[a])]

\* C36: the staff notifications follow the ledger.  Every send to an admin
\* chat carries the id of a row of the ledger, and a cancellation notice the
\* id of a row that is cancelled; a step sends one message at most, for the
\* order of the handler that sends it; and a commit whose save_order fails,
\* a cancel whose cancel_order fails and a cancel refused by the cutoff send
\* nothing and leave no handler that would.
C36_NoticesFollowLedger ==
    /\ [](\A a \in Admins : \A i \in 1..Len(admin_chat[a]) :
             /\ admin_chat[a][i].order_id \in 1..Len(orders)
             /\ admin_chat[a][i].kind \in {"new_order", "cancelled"}
             /\ admin_chat[a][i].kind = "cancelled"
                => orders[admin_chat[a][i].order_id].status = "cancelled")
    /\ [][/\ \A a \in Admins :
                admin_chat'[a] # admin_chat[a]
                => /\ admin_chat'[a] = Append(admin_chat[a], Newest(a))
                   /\ \A b \in Admins \ {a} : admin_chat'[b] = admin_chat[b]
                   /\ \E t \in tasks :
                         /\ t.pc = "notify"
                         /\ t.admin_id = a
                         /\ t.order_data.order_id = Newest(a).order_id
                         /\ orders[t.order_data.order_id].user_id = t.user_id
                         /\ Newest(a).kind =
                               (IF t.kind = "commit" THEN "new_order" ELSE "cancelled")
          /\ \A u \in Users :
                /\ (\E time_str \in TimeInputs :
                       Press(u, Button("delivery_time", time_str), FALSE, TRUE))
                   => UNCHANGED <<orders, admin_chat, tasks>>
                /\ (/\ u \in DOMAIN last_orders
                    /\ Press(u, Button("cancel_last_order", <<>>), TRUE, FALSE))
                   => UNCHANGED <<orders, admin_chat, tasks>>
                /\ (/\ u \in DOMAIN last_orders
                    /\ last_orders[u].delivery_datetime - now <= SixHours
                    /\ \E dbok \in BOOLEAN :
                          Press(u, Button("cancel_last_order", <<>>), TRUE, dbok))
                   => UNCHANGED <<orders, admin_chat, tasks>>]_vars

\* the cancel was refused at the cutoff: the admin chat holds one message,
\* the delivered new-order notice of the one order, which is active
C36_OnlyTheSavedOrderTold ==
    /\ tasks = {}
    /\ Len(orders) = 1
    /\ orders[1].status = "active"
    /\ chat[1].text = "too_late_to_cancel"
    /\ Len(admin_chat[8]) = 1
    /\ admin_chat[8][1].kind = "new_order"
    /\ admin_chat[8][1].order_id = 1
    /\ admin_chat[8][1].delivered

-----------------------------------------------------------------------------
(* SpecEdit: one user edits the cart: products 1..MaxProduct, quantities     *)
(* 1..MaxQty, at most MaxUnits units in the cart, the two-step add of        *)
(* handlers.py and the one-step add of bot.py, the cursor and the removal.   *)

RECURSIVE CartTotal(_)
\* the units in a cart
CartTotal(cart) ==
    IF cart = <<>> THEN 0 ELSE Head(cart).quantity + CartTotal(Tail(cart))

EditChoose(u) ==
    Idle /\ \E k \in 1..MaxProduct : handle_product_message(u, ProductMessage(k), TRUE)

EditQuantity(u) ==
    Idle /\ \E q \in 1..MaxQty :
        /\ CartTotal(CartItems(user_carts, u)) + q <= MaxUnits
        /\ enter_quantity(u, Number(q))

EditBadQuantity(u) ==
    Idle /\ \E quantity_text \in {NotANumber, Number(0), Number(-1)} :
        enter_quantity(u, quantity_text)

EditAddOne(u) ==
    Idle /\ \E k \in 1..MaxProduct :
        /\ CartTotal(CartItems(user_carts, u)) + 1 <= MaxUnits
        /\ bot_handle_product_message(u, ProductMessage(k), TRUE)

EditIncrease(u) ==
    Idle /\ CartTotal(CartItems(user_carts, u)) + 1 <= MaxUnits /\ increase(u)

EditDecrease(u) == Idle /\ decrease(u)

EditPrev(u) == Idle /\ Press(u, Button("prev_item", <<>>), TRUE, TRUE)

EditNext(u) == Idle /\ Press(u, Button("next_item", <<>>), TRUE, TRUE)

EditRemove(u) == Idle /\ Press(u, Button("remove_item", <<>>), TRUE, TRUE)

NextEdit ==
    \E u \in {1} :
        \/ EditChoose(u)
        \/ EditQuantity(u)
        \/ EditBadQuantity(u)
        \/ EditAddOne(u)
        \/ EditIncrease(u)
        \/ EditDecrease(u)
        \/ EditPrev(u)
        \/ EditNext(u)
        \/ EditRemove(u)

SpecEdit == Init /\ [][NextEdit]_vars

-----------------------------------------------------------------------------
(* Properties of SpecEdit *)

\* the lines of a cart that carry product id
LinesOf(cart, id) == {k \in 1..Len(cart) : cart[k].product.id = id}

RECURSIVE QtyOf(_, _)
\* the units of product id in a cart, over all its lines
QtyOf(cart, id) ==
    IF cart = <<>> THEN 0
    ELSE (IF Head(cart).product.id = id THEN Head(cart).quantity ELSE 0)
         + QtyOf(Tail(cart), id)

\* what an add of quantity units of product id does to the cart of user u:
\* the product has exactly one line, its units grow by quantity and the units
\* of every other product stay
Added(u, id, quantity) ==
    /\ Cardinality(LinesOf(CartItems(user_carts', u), id)) = 1
    /\ \A j \in 1..NumProducts :
          QtyOf(CartItems(user_carts', u), j) =
              QtyOf(CartItems(user_carts, u), j) + (IF j = id THEN quantity ELSE 0)

\* C8: the cart never has two lines of one product, and every add, the
\* quantity step of handlers.py as the one-step add of bot.py, leaves exactly
\* one line of the product and raises its units by the quantity added: with
\* no removal between, a line's quantity is the sum of the quantities added.
C8_OneLinePerProduct ==
    /\ [](\A u \in Users, id \in 1..NumProducts :
             Cardinality(LinesOf(CartItems(user_carts, u), id)) <= 1)
    /\ [][\A u \in Users :
             /\ \A q \in 1..MaxQty :
                   (u \in DOMAIN pending_product /\ enter_quantity(u, Number(q)))
                   => Added(u, pending_product[u].id, q)
             /\ \A k \in 1..MaxProduct :
                   (/\ ~Falsy(get_client(u, TRUE).organization)
                    /\ bot_handle_product_message(u, ProductMessage(k), TRUE))
                   => Added(u, k, 1)]_vars

\* two products in the cart, one of them with more units than one message
\* can add
C8_LineIncremented ==
    \E u \in Users :
        /\ Len(CartItems(user_carts, u)) = 2
        /\ \E k \in 1..2 : CartItems(user_carts, u)[k].quantity > MaxQty

\* C10: remove_item deletes exactly the line at the cursor and keeps the
\* other lines in their order; the cursor is then min(old cursor, new length
\* - 1) when lines remain and unset when the cart is empty.
C10_RemoveAtCursor ==
    [][\A u \in Users :
          (/\ u \in DOMAIN current_editing
           /\ current_editing[u] < Len(CartItems(user_carts, u))
           /\ remove_item(u))
          => LET old == CartItems(user_carts, u)
                 new == CartItems(user_carts', u)
                 idx == current_editing[u]
             IN  /\ Len(new) = Len(old) - 1
                 /\ \A k \in 1..Len(new) :
                       new[k] = IF k <= idx THEN old[k] ELSE old[k + 1]
                 /\ IF Len(new) > 0
                    THEN /\ u \in DOMAIN current_editing'
                         /\ current_editing'[u] =
                               IF idx <= Len(new) - 1 THEN idx ELSE Len(new) - 1
                    ELSE u \notin DOMAIN current_editing']_vars

\* the last line was removed: the cart is shown empty and the cursor is unset
C10_LastLineRemoved ==
    \E u \in Users :
        /\ u \in DOMAIN user_carts
        /\ CartItems(user_carts, u) = <<>>
        /\ u \notin DOMAIN current_editing
        /\ chat[u].text = "cart_empty"

\* C25: every line of every cart has a quantity of at least 1, in every
\* reachable state: a quantity that is not greater than zero adds nothing,
\* and a decrease on a line of quantity 1 leaves the cart, with that line
\* and its quantity, and the cursor as they are.
C25_QuantityAtLeastOne ==
    /\ [](\A u \in DOMAIN user_carts :
             \A k \in 1..Len(user_carts[u].items) :
                user_carts[u].items[k].quantity >= 1)
    /\ [][\A u \in Users :
             /\ \A q \in {0, -1} :
                   enter_quantity(u, Number(q))
                      => UNCHANGED <<user_carts, current_editing, pending_product>>
             /\ (/\ u \in DOMAIN current_editing
                 /\ current_editing[u] < Len(CartItems(user_carts, u))
                 /\ CartItems(user_carts, u)[current_editing[u] + 1].quantity = 1
                 /\ decrease(u))
                => UNCHANGED <<user_carts, current_editing>>]_vars

\* two lines, the cursor on a line of quantity 1 next to a line of quantity 2
\* that a decrease brought down from 3, and a quantity of zero just refused
C25_OneUnitLine ==
    /\ 1 \in DOMAIN current_editing
    /\ Len(CartItems(user_carts, 1)) = 2
    /\ CartItems(user_carts, 1)[current_editing[1] + 1].quantity = 1
    /\ \E k \in 1..2 : CartItems(user_carts, 1)[k].quantity = 2
    /\ chat[1] = Reply("quantity_must_be_positive", {})

\* C26: after an add the editing cursor is the index of the line the add
\* affected: the index of the product's line when the product already had a
\* line, the last index when the line was appended; in both cases the index
\* of the one line the product has after the add.
C26_CursorOnAffectedLine ==
    [][\A u \in Users :
          /\ \A q \in 1..MaxQty :
                (u \in DOMAIN pending_product /\ enter_quantity(u, Number(q)))
                => /\ u \in DOMAIN current_editing'
                   /\ current_editing'[u] =
                         LineOf(CartItems(user_carts', u), pending_product[u]) - 1
          /\ \A k \in 1..MaxProduct :
                (/\ ~Falsy(get_client(u, TRUE).organization)
                 /\ bot_handle_product_message(u, ProductMessage(k), TRUE))
                => /\ u \in DOMAIN current_editing'
                   /\ current_editing'[u] =
                         LineOf(CartItems(user_carts', u), PRODUCTS[k]) - 1]_vars

\* C38: adding a product takes two steps.  A product message of a registered
\* user records the product as the pending one, returns the quantity step
\* and leaves the cart, the cursor and the tables as they are; a quantity
\* text that is no number or not greater than zero leaves the cart, the
\* cursor and the pending product as they are and returns the quantity step
\* again; a quantity greater than zero, with a pending product, adds that
\* many units of it to the cart, clears the pending product and ends the
\* conversation; a quantity with no pending product changes none of them.
C38_TwoStepAdd ==
    [][\A u \in Users :
          /\ \A k \in 1..MaxProduct :
                (/\ u \in DOMAIN clients
                 /\ handle_product_message(u, ProductMessage(k), TRUE))
                => /\ UNCHANGED <<clients, orders, cartVars, selected_dates, last_orders>>
                   /\ u \in DOMAIN pending_product'
                   /\ pending_product'[u] = PRODUCTS[k]
                   /\ \A v \in DOMAIN pending_product \ {u} :
                         v \in DOMAIN pending_product'
                   /\ handle_product_message_returns(u, ProductMessage(k), TRUE)
                         = ENTER_QUANTITY
          /\ \A quantity_text \in {NotANumber, Number(0), Number(-1)} :
                enter_quantity(u, quantity_text)
                => /\ UNCHANGED <<cartVars, pending_product>>
                   /\ enter_quantity_returns(u, quantity_text) = ENTER_QUANTITY
          /\ \A q \in 1..MaxQty :
                /\ (u \in DOMAIN pending_product /\ enter_quantity(u, Number(q)))
                   => /\ Added(u, pending_product[u].id, q)
                      /\ u \notin DOMAIN pending_product'
                      /\ enter_quantity_returns(u, Number(q)) = END
                /\ (u \notin DOMAIN pending_product /\ enter_quantity(u, Number(q)))
                   => /\ UNCHANGED <<cartVars, pending_product>>
                      /\ chat'[u].text = "no_product_selected"]_vars

\* a product is pending beside a cart that holds another product, and a text
\* that is no number was just refused
C38_StillAwaitingQuantity ==
    /\ 1 \in DOMAIN pending_product
    /\ CartItems(user_carts, 1) # <<>>
    /\ LineOf(CartItems(user_carts, 1), pending_product[1]) = 0
    /\ chat[1].text = "enter_a_number"

-----------------------------------------------------------------------------
(* SpecCart: one user fills, edits, commits and cancels, with no admin chat  *)
(* configured.  Cart events also arrive while a commit or a cancel waits for *)
(* its edit, and from the buttons of older messages.  Lines are of one unit, *)
(* of products 1..CartLines; the run covers the user's first order, from the *)
(* empty ledger to the order's cancellation.                                 *)

InitCart == InitWith(<<>>)

\* a button of a message the bot sent at some time
Offered(data) == data \in HandledTokens

CartChoose(u) ==
    /\ u \in Users
    /\ \E k \in 1..CartLines : handle_product_message(u, ProductMessage(k), TRUE)

CartQuantity(u) == PendingQty(u) = 0 /\ enter_quantity(u, Number(1))

CartPrev(u) == Offered("prev_item") /\ Press(u, Button("prev_item", <<>>), TRUE, TRUE)

CartNext(u) == Offered("next_item") /\ Press(u, Button("next_item", <<>>), TRUE, TRUE)

CartRemove(u) ==
    Offered("remove_item") /\ Press(u, Button("remove_item", <<>>), TRUE, TRUE)

CartSelectDate(u) ==
    Offered("delivery_date") /\ Press(u, Button("delivery_date", <<1>>), TRUE, TRUE)

CartCommit(u) ==
    /\ Idle
    /\ orders = <<>>
    /\ \E time_str \in TimeInputs :
          Press(u, Button("delivery_time", time_str), TRUE, TRUE)

CartCancel(u) == Idle /\ Press(u, Button("cancel_last_order", <<>>), TRUE, TRUE)

CartTaskStep ==
    \E t \in tasks, delivered \in BOOLEAN :
        \/ commit_confirm(t, delivered, TRUE)
        \/ cancel_final(t, delivered, TRUE)

NextCart ==
    \/ \E u \in {1} :
          \/ CartChoose(u)
          \/ CartQuantity(u)
          \/ CartPrev(u)
          \/ CartNext(u)
          \/ CartRemove(u)
          \/ CartSelectDate(u)
          \/ CartCommit(u)
          \/ CartCancel(u)
    \/ CartTaskStep

SpecCart == InitCart /\ [][NextCart]_vars

-----------------------------------------------------------------------------
(* Properties of SpecCart *)

\* C9: in every state reached by adds, prev_item, next_item, remove_item,
\* commits and cancels, a cart that is not empty has its cursor set, and the
\* cursor is an index of the cart: 0 <= cursor < number of lines.
C9_CursorInCart ==
    \A u \in Users :
        CartItems(user_carts, u) # <<>>
        => /\ u \in DOMAIN current_editing
           /\ 0 <= current_editing[u]
           /\ current_editing[u] < Len(CartItems(user_carts, u))

\* after a commit cleared a cart of two lines and left the cursor on its
\* second line, an add made a cart of one line: the cursor is on that line
C9_AddAfterCommit ==
    \E u \in Users :
        /\ Len(orders) = 1
        /\ Len(orders[1].order_data.items) = 2
        /\ Len(CartItems(user_carts, u)) = 1
        /\ current_editing[u] = 0
        /\ chat[u].text = "cart"

RECURSIVE Turns(_, _, _)
\* the cursor after k presses of next_item on a cart of n lines
Turns(c, n, k) == IF k = 0 THEN c ELSE Turns(PyMod(c + 1, n), n, k - 1)

\* C27: navigation is cyclic and changes nothing but the cursor.  On a cart
\* of n lines with the cursor on c, next_item puts the cursor on c + 1, on 0
\* from the last line, and prev_item on c - 1, on the last line from 0; the
\* carts and every other part of the state but the message shown stay;
\* next then prev gives c back, and so do n presses of next; on an empty
\* cart and on a cart of one line the cursor stays as well.
C27_CyclicNavigation ==
    /\ [](\A u \in DOMAIN current_editing :
             LET n == Len(CartItems(user_carts, u))
                 c == current_editing[u]
             IN  (n > 0 /\ c < n)
                 => /\ PyMod(PyMod(c + 1, n) - 1, n) = c
                    /\ PyMod(PyMod(c - 1, n) + 1, n) = c
                    /\ Turns(c, n, n) = c)
    /\ [][\A u \in Users :
             LET n == Len(CartItems(user_carts, u))
                 c == current_editing[u]
             IN  /\ (next_item(u) \/ prev_item(u))
                    => UNCHANGED <<dbVars, get_client_cache, user_carts,
                                   selected_dates, last_orders, pending_product,
                                   regVars, ADMIN_IDS, now, admin_chat, tasks>>
                 /\ (u \in DOMAIN current_editing /\ n > 0 /\ next_item(u))
                    => current_editing' =
                          [current_editing EXCEPT
                              ![u] = IF c = n - 1 THEN 0 ELSE c + 1]
                 /\ (u \in DOMAIN current_editing /\ n > 0 /\ prev_item(u))
                    => current_editing' =
                          [current_editing EXCEPT
                              ![u] = IF c = 0 THEN n - 1 ELSE c - 1]
                 /\ (n <= 1 /\ (next_item(u) \/ prev_item(u)))
                    => UNCHANGED current_editing]_vars

\* a cart of two lines with the cursor on the first: the adds left it on the
\* second, a press of prev_item or next_item took it round
C27_CursorTookTheTurn ==
    /\ Len(CartItems(user_carts, 1)) = 2
    /\ 1 \in DOMAIN current_editing
    /\ current_editing[1] = 0
    /\ chat[1].text = "cart"
    /\ orders = <<>>

\* C28: in every reachable state a user whose cart is empty has no editing
\* cursor, whether the cart became empty by the removal of its last line or
\* by a successful commit.
C28_EmptyCartNoCursor ==
    \A u \in Users :
        CartItems(user_carts, u) = <<>> => u \notin DOMAIN current_editing

\* the commit of a cart of two lines has ended: the order is stored, the cart
\* is empty, and the cursor still is on the second line
C28_CursorLeftByCommit ==
    /\ tasks = {}
    /\ Len(orders) = 1
    /\ orders[1].status = "active"
    /\ Len(orders[1].order_data.items) = 2
    /\ 1 \in DOMAIN user_carts
    /\ user_carts[1].items = <<>>
    /\ 1 \in DOMAIN current_editing
    /\ current_editing[1] = 1
    /\ chat[1].text = "order_confirmed"

-----------------------------------------------------------------------------
(* SpecConc: one user's updates handled concurrently: a new event is taken   *)
(* while up to MaxTasks - 1 earlier handlers still wait at an await.  One    *)
(* admin chat, the database works, the sends and edits get through, the      *)
(* clock stands still with twelve hours to the delivery.                     *)

\* a further handler may start
Free == Cardinality(tasks) < MaxTasks

ConcChoose(u) == Free /\ handle_product_message(u, ProductMessage(1), TRUE)

ConcQuantity(u) == Free /\ PendingQty(u) = 0 /\ enter_quantity(u, Number(1))

ConcSelectDate(u) == Free /\ Press(u, Button("delivery_date", <<1>>), TRUE, TRUE)

ConcCommit(u) ==
    /\ Free
    /\ Len(orders) < MaxRows
    /\ \E time_str \in TimeInputs :
          Press(u, Button("delivery_time", time_str), TRUE, TRUE)

ConcCancel(u) == Free /\ Press(u, Button("cancel_last_order", <<>>), TRUE, TRUE)

ConcTaskStep ==
    \E t \in tasks :
        \/ commit_confirm(t, TRUE, TRUE)
        \/ commit_notify(t, TRUE)
        \/ cancel_notify(t, TRUE)
        \/ cancel_final(t, TRUE, TRUE)

NextConc ==
    \/ \E u \in {1} :
          \/ ConcChoose(u)
          \/ ConcQuantity(u)
          \/ ConcSelectDate(u)
          \/ ConcCommit(u)
          \/ ConcCancel(u)
    \/ ConcTaskStep

SpecConc == Init /\ [][NextConc]_vars

-----------------------------------------------------------------------------
(* Properties of SpecConc *)

\* the row a step adds to the ledger
NewRow == orders'[Len(orders')]

\* C5: of two delivery_time events of one user for one cart, the second taken
\* while the first handler waits at an await, at most one writes a row: no
\* step adds a row for a user while a commit of that user that wrote a row
\* with the same lines for the same slot is still in flight.
C5_OneRowPerDoubleTap ==
    [][\A u \in Users :
          (Len(orders') = Len(orders) + 1 /\ NewRow.user_id = u)
          => ~\E t \in tasks :
                /\ t.kind = "commit"
                /\ t.user_id = u
                /\ orders[t.order_data.order_id].order_data.items =
                       NewRow.order_data.items
                /\ orders[t.order_data.order_id].delivery_date = NewRow.delivery_date
                /\ orders[t.order_data.order_id].delivery_time =
                       NewRow.delivery_time]_vars

\* two commits of one user in flight, their rows with the same lines
C5_TwoRowsOneCart ==
    \E t1 \in tasks, t2 \in tasks :
        /\ t1.kind = "commit" /\ t2.kind = "commit"
        /\ t1.user_id = t2.user_id
        /\ t1.order_data.order_id < t2.order_data.order_id
        /\ orders[t1.order_data.order_id].order_data.items =
               orders[t2.order_data.order_id].order_data.items

\* the cancel handlers in flight for ledger row k
Cancelling(k) == {t \in tasks : t.kind = "cancel" /\ t.order_data.order_id = k}

\* C6: of two concurrent cancel attempts on one active order exactly one
\* updates the row and goes on, the other is told the cancellation failed and
\* changes nothing; the order is cancelled, one cancel handler at most is in
\* flight for it and each admin chat gets at most one cancellation notice.
C6_OneCancelWins ==
    /\ [](\A k \in 1..Len(orders) :
             /\ Cancelling(k) # {} => orders[k].status = "cancelled"
             /\ Cardinality(Cancelling(k)) <= 1
             /\ \A a \in Admins : Cardinality(Notices(a, k)) <= 1)
    /\ [][\A u \in Users :
             (/\ u \in DOMAIN last_orders
              /\ Cancelling(last_orders[u].order_id) # {}
              /\ cancel_last_order(u, TRUE))
             => /\ orders' = orders
                /\ tasks' = tasks
                /\ admin_chat' = admin_chat
                /\ chat'[u].text = "cancel_failed"]_vars

\* the only order is cancelled, the handler that cancelled it still waits and
\* the user has been told that a cancellation failed: the second attempt
C6_SecondCancelFailed ==
    \E u \in Users :
        /\ Len(orders) = 1
        /\ orders[1].status = "cancelled"
        /\ Cancelling(1) # {}
        /\ chat[u].text = "cancel_failed"

\* C34: cancel_last_order removes only the handle of the order it cancelled.
\* When the final edit of a cancel returns while the user's handle is that of
\* another order, written by a commit taken while the cancel waited, the
\* handle is left as it is: the new order can still be cancelled with it.
C34_CancelRemovesOwnHandle ==
    [][\A t \in tasks :
          (/\ t.kind = "cancel"
           /\ cancel_final(t, TRUE, TRUE)
           /\ t.user_id \in DOMAIN last_orders
           /\ last_orders[t.user_id].order_id # t.order_data.order_id)
          => /\ t.user_id \in DOMAIN last_orders'
             /\ last_orders'[t.user_id] = last_orders[t.user_id]]_vars

\* the first order is cancelled, the second is active, no handler waits and
\* the user has no handle
C34_NewOrderWithoutHandle ==
    /\ tasks = {}
    /\ Len(orders) = 2
    /\ orders[1].status = "cancelled"
    /\ orders[2].status = "active"
    /\ orders[2].user_id = 1
    /\ 1 \notin DOMAIN last_orders

-----------------------------------------------------------------------------
(* SpecGuard: the guards of the commit.  User 1 is registered, user 2 is     *)
(* not; both choose products, pick the date and press a delivery time, with  *)
(* the database answering get_client or not, and the lru_cache losing        *)
(* entries.                                                                  *)

GuardCommit(u) ==
    /\ Idle
    /\ Len(orders) < MaxRows
    /\ \E time_str \in TimeInputs, cdb \in BOOLEAN :
          handle_callback_query(u, Button("delivery_time", time_str), cdb, TRUE, TRUE)

GuardEvict(u) == Idle /\ Evict(u)

GuardTaskStep ==
    \E t \in tasks :
       \/ commit_confirm(t, TRUE, TRUE)
       \/ commit_notify(t, TRUE)

NextGuard ==
    \/ \E u \in Users :
          \/ AddProduct(u)
          \/ EnterOne(u)
          \/ SelectDate(u)
          \/ GuardCommit(u)
          \/ GuardEvict(u)
    \/ GuardTaskStep

SpecGuard == Init /\ [][NextGuard]_vars

-----------------------------------------------------------------------------
(* Properties of SpecGuard *)

\* C11: a delivery_time_* press of a user with no pending delivery date ends
\* with the date-not-selected answer: the cart and the cursor are unchanged,
\* no row is written, no handle is created and no staff notification is sent
\* or started.
C11_NoDateNoCommit ==
    [][\A u \in Users, time_str \in TimeInputs, cdb \in BOOLEAN, sdb \in BOOLEAN :
          (u \notin DOMAIN selected_dates
              /\ process_delivery_time(u, time_str, cdb, sdb))
          => /\ chat'[u].text = "date_not_selected"
             /\ UNCHANGED <<user_carts, current_editing, orders, last_orders,
                            admin_chat, tasks>>]_vars

\* a registered user with a filled cart pressed a delivery time without a date
C11_DateNotSelected ==
    \E u \in Users :
       /\ chat[u].text = "date_not_selected"
       /\ u \in DOMAIN clients
       /\ CartItems(user_carts, u) # <<>>
       /\ u \notin DOMAIN selected_dates
       /\ orders = <<>>

\* the registered client of a ledger row has the row's organization and
\* contact person, and the row has an item
WellFormed(k) ==
    /\ Len(orders[k].order_data.items) >= 1
    /\ orders[k].user_id \in DOMAIN clients
    /\ orders[k].order_data.organization = clients[orders[k].user_id].organization
    /\ orders[k].order_data.contact_person
          = clients[orders[k].user_id].contact_person

\* C12: a delivery_time_* press of an unregistered user, or of a user whose
\* cart is empty, writes no row, creates no handle, sends or starts no staff
\* notification and leaves the cart and the pending date as they were; so every
\* row of the ledger has at least one item and carries the organization and
\* the contact person of a registered client.
C12_RefusedCommitWritesNothing ==
    /\ [](\A k \in 1..Len(orders) : WellFormed(k))
    /\ [][\A u \in Users, time_str \in TimeInputs, cdb \in BOOLEAN, sdb \in BOOLEAN :
             (process_delivery_time(u, time_str, cdb, sdb)
                 /\ (u \notin DOMAIN clients \/ CartItems(user_carts, u) = <<>>))
             => UNCHANGED <<orders, last_orders, admin_chat, tasks, user_carts,
                            selected_dates>>]_vars

\* with an order in the ledger, the unregistered user 2 was told to register
\* and user 1 that the cart is empty, both with a date pending
C12_BothRefusals ==
    /\ orders # <<>>
    /\ 2 \notin DOMAIN clients
    /\ chat[2].text = "register_before_ordering"
    /\ chat[1].text = "cart_empty"
    /\ {1, 2} \subseteq DOMAIN selected_dates

-----------------------------------------------------------------------------
(* SpecNotify: the first order of user 1 with two admin chats configured,    *)
(* from the commit to the cancellation; every edit and every send returns or *)
(* raises, the ledger statement of the cancel runs or fails, the clock runs. *)

InitNotify == InitWith(<<8, 9>>)

NotifyCommit(u) ==
    /\ Idle
    /\ orders = <<>>
    /\ \E time_str \in TimeInputs :
          Press(u, Button("delivery_time", time_str), TRUE, TRUE)

\* the press of cancel_last_order as bot.py handles it
NotifyBotCancel(u) == Idle /\ \E dbok \in BOOLEAN : bot_cancel_last_order(u, dbok)

NextNotify ==
    \/ \E u \in {1} :
          \/ AddProduct(u)
          \/ EnterOne(u)
          \/ SelectDate(u)
          \/ NotifyCommit(u)
          \/ Cancel(u)
          \/ NotifyBotCancel(u)
    \/ TaskStep
    \/ Tick

SpecNotify == InitNotify /\ [][NextNotify]_vars

-----------------------------------------------------------------------------
(* Properties of SpecNotify *)

\* the send attempts of one kind for order k in an admin's chat, delivered
\* or not
Attempts(admin_id, kind, k) ==
    {i \in 1..Len(admin_chat[admin_id]) :
        /\ admin_chat[admin_id][i].kind = kind
        /\ admin_chat[admin_id][i].order_id = k}

\* the configured admin chats
Configured == {ADMIN_IDS[i] : i \in 1..Len(ADMIN_IDS)}

\* C13: on commit every configured admin chat gets one send attempt: when the
\* handler of a commit that wrote its order ends, each configured admin chat
\* holds exactly one attempt of the new-order notification, whether delivered
\* or not, the order is in the ledger as active and the cart is cleared.
C13_EveryAdminOneAttempt ==
    [][\A t \in tasks :
          CommitEnds(t)
          => /\ \A a \in Configured :
                   Cardinality({i \in 1..Len(admin_chat'[a]) :
                       /\ admin_chat'[a][i].kind = "new_order"
                       /\ admin_chat'[a][i].order_id = t.order_data.order_id}) = 1
             /\ orders'[t.order_data.order_id].status = "active"
             /\ CartItems(user_carts', t.user_id) = <<>>]_vars

\* the commit wrote the order and its handler is over, and no admin chat got
\* an attempt
C13_OrderSavedNobodyTold ==
    /\ tasks = {}
    /\ Len(orders) = 1
    /\ orders[1].status = "active"
    /\ 1 \in DOMAIN last_orders
    /\ \A a \in Configured : Attempts(a, "new_order", 1) = {}

\* the loop alone: once the confirmation is on the screen, a send that
\* raised for the first admin chat is followed by the attempt for the second,
\* and the handler ends with one attempt in each chat, the order active and
\* the cart cleared
C13_FailedSendGoesOn ==
    /\ tasks = {}
    /\ Len(orders) = 1
    /\ orders[1].status = "active"
    /\ Cardinality(Attempts(8, "new_order", 1)) = 1
    /\ ~admin_chat[8][1].delivered
    /\ Cardinality(Attempts(9, "new_order", 1)) = 1
    /\ admin_chat[9][1].delivered
    /\ CartItems(user_carts, 1) = <<>>

\* the cancel handler of task t ends in this step: its final edit returned or
\* raised
CancelEnds(t) ==
    /\ t \in tasks
    /\ t.kind = "cancel"
    /\ \E delivered \in BOOLEAN : cancel_final(t, delivered, TRUE)

\* C15: after a cancel that set the row to cancelled, the handler ends with
\* exactly one attempt of the cancellation notice in every configured admin
\* chat, delivered or not, and with the user's handle cleared; a press of
\* cancel_last_order that cancels no row (past the cutoff, or the ledger
\* statement failed or matched no row) keeps the handle, sends no notice and
\* starts none.
C15_NoticeAndHandle ==
    /\ [][\A t \in tasks :
             CancelEnds(t)
             => /\ \A a \in Configured :
                      Cardinality({i \in 1..Len(admin_chat'[a]) :
                          /\ admin_chat'[a][i].kind = "cancelled"
                          /\ admin_chat'[a][i].order_id = t.order_data.order_id}) = 1
                /\ t.user_id \notin DOMAIN last_orders']_vars
    /\ [][\A u \in Users, dbok \in BOOLEAN :
             (/\ u \in DOMAIN last_orders
              /\ cancel_last_order(u, dbok) \/ bot_cancel_last_order(u, dbok)
              /\ orders' = orders)
             => UNCHANGED <<last_orders, admin_chat, tasks>>]_vars

\* the order is cancelled, both admin chats got their notice and the handler
\* is over, and the handle of the cancelled order is still there
C15_CancelledHandleKept ==
    /\ tasks = {}
    /\ Len(orders) = 1
    /\ orders[1].status = "cancelled"
    /\ \A a \in Configured : Cardinality(Attempts(a, "cancelled", 1)) = 1
    /\ 1 \in DOMAIN last_orders
    /\ last_orders[1].order_id = 1

\* the cancel through bot.py's handler: the order is cancelled, the handle is
\* cleared, and no admin chat got an attempt of the notice
C15_CancelledNobodyTold ==
    /\ tasks = {}
    /\ Len(orders) = 1
    /\ orders[1].status = "cancelled"
    /\ \A a \in Configured : Attempts(a, "cancelled", 1) = {}
    /\ 1 \notin DOMAIN last_orders
    /\ chat[1].text = "order_cancelled"

-----------------------------------------------------------------------------
(* SpecLedger: the orders of user 1 one after the other, from carts of the   *)
(* products of LedgerProducts in either order, with the cart edited between  *)
(* the commits; every statement runs and every message gets through.         *)

LedgerProducts == {1, 2}

\* the order_ids the ledger gets to
LedgerRows == {1, 2}

LedgerChoose(u) ==
    Idle /\ \E k \in LedgerProducts : handle_product_message(u, ProductMessage(k), TRUE)

\* a further unit of a product, while the cart has fewer units than there are
\* products
LedgerAddOne(u) ==
    /\ Idle
    /\ CartTotal(CartItems(user_carts, u)) < Cardinality(LedgerProducts)
    /\ \E k \in LedgerProducts : bot_handle_product_message(u, ProductMessage(k), TRUE)

LedgerCommit(u) ==
    /\ Idle
    /\ Len(orders) + 1 \in LedgerRows
    /\ \E time_str \in TimeInputs :
          Press(u, Button("delivery_time", time_str), TRUE, TRUE)

NextLedger ==
    \/ \E u \in {1} :
          \/ LedgerChoose(u)
          \/ EnterOne(u)
          \/ LedgerAddOne(u)
          \/ EditPrev(u)
          \/ EditNext(u)
          \/ EditRemove(u)
          \/ SelectDate(u)
          \/ LedgerCommit(u)
          \/ CartCancel(u)
    \/ ConcTaskStep

SpecLedger == Init /\ [][NextLedger]_vars

-----------------------------------------------------------------------------
(* Properties of SpecLedger *)

\* the titles and quantities of a list of items, in its order
Lines(items) ==
    [k \in 1..Len(items) |-> <<items[k].product.title, items[k].quantity>>]

C18_SnapshotFrozen ==
    [][\A k \in 1..Len(orders) :
          /\ k <= Len(orders')
          /\ orders'[k].order_data.items = orders[k].order_data.items
          /\ orders'[k].order_data.organization = orders[k].order_data.organization
          /\ orders'[k].order_data.contact_person = orders[k].order_data.contact_person
          /\ orders'[k].delivery_date = orders[k].delivery_date
          /\ orders'[k].delivery_time = orders[k].delivery_time]_vars

\* after the first order of two lines: a second order of other items was
\* committed and cancelled, and the cart now has two units of one product with
\* the cursor on it
C18_EditedAfterCommit ==
    /\ Len(orders) = 2
    /\ Lines(orders[1].order_data.items) = <<<<Titles[1], 1>>, <<Titles[2], 1>>>>
    /\ orders[1].status = "active"
    /\ Lines(orders[2].order_data.items) = <<<<Titles[2], 1>>>>
    /\ orders[2].status = "cancelled"
    /\ Lines(CartItems(user_carts, 1)) = <<<<Titles[2], 2>>>>
    /\ tasks = {}

-----------------------------------------------------------------------------
(* handlers.py, bot.py: /stats.  A month of the model's calendar has          *)
(* DaysPerMonth days, day 0 is the first day of month 0; a date string is    *)
(* its day number, so BETWEEN on the TEXT column is <= on the numbers.       *)

\* monthrange(year, month): the days of a month
DaysPerMonth == 2

\* datetime(year, month, 1) and datetime(year, month, last_day)
FirstDay(month) == month * DaysPerMonth

LastDay(month) == FirstDay(month) + DaysPerMonth - 1

\* context.args: none, DD.MM, MM.YYYY, or a text that is neither
StatsArg(form, value) == [form |-> form, value |-> value]

\* admin_stats 572-611 (bot.py 849-890): the period of the request
StatsRange(args) ==
    [ok |-> args.form # "bad",
     is_month |-> args.form # "day",
     start_date |-> CASE args.form = "day" -> args.value
                      [] args.form = "month" -> FirstDay(args.value)
                      [] OTHER -> FirstDay(Today \div DaysPerMonth),
     end_date |-> CASE args.form = "day" -> args.value
                    [] args.form = "month" -> LastDay(args.value)
                    [] OTHER -> LastDay(Today \div DaysPerMonth)]

\* the query without "AND status = 'active'"
stats_orders_any_status(start_date, end_date) ==
    LET Match(o) == start_date <= o.delivery_date /\ o.delivery_date <= end_date
    IN  SelectSeq(orders, Match)

\* WHERE delivery_date BETWEEN %s AND %s AND status = 'active' (handlers.py
\* 627, bot.py 897): the rows of the period, in the order of the table
stats_orders(start_date, end_date) ==
    LET Match(o) == /\ start_date <= o.delivery_date
                    /\ o.delivery_date <= end_date
                    /\ o.status = "active"
    IN  SelectSeq(orders, Match)

\* [0] * 13
ZeroQuantities == [c \in 1..NumProducts |-> 0]

RECURSIVE add_items(_, _)
\* bot.py 923-926, 969-972: quantities[prod_id] += item['quantity'] for the
\* items whose product id is one of the 13 columns
add_items(quantities, items) ==
    IF items = <<>> THEN quantities
    ELSE add_items(IF Head(items).product.id \in 1..NumProducts
                   THEN [quantities EXCEPT ![Head(items).product.id] =
                                               @ + Head(items).quantity]
                   ELSE quantities,
                   Tail(items))

RECURSIVE add_orders(_, _)
\* the loop over the orders of one row of the report
add_orders(quantities, rows) ==
    IF rows = <<>> THEN quantities
    ELSE add_orders(add_items(quantities, Head(rows).order_data.items), Tail(rows))

RECURSIVE sorted(_)
\* sorted(keys) for keys that are tuples of numbers, which differ in their
\* first two places
sorted(keys) ==
    IF keys = {} THEN <<>>
    ELSE LET least == CHOOSE x \in keys : \A y \in keys :
                          x[1] < y[1] \/ (x[1] = y[1] /\ x[2] <= y[2])
         IN  <<least>> \o sorted(keys \ {least})

RECURSIVE sum_column(_, _)
\* totals[i] += quantities[i] over the rows written
sum_column(data, c) ==
    IF data = <<>> THEN 0
    ELSE Head(data).quantities[c] + sum_column(Tail(data), c)

\* the contact names of the model in the order of Python's str comparison
ContactOrder == <<"Abramov Petr", "Ivanov Ivan">>

\* the place of a contact name in that order
ContactRank(contact) == CHOOSE i \in 1..Len(ContactOrder) : ContactOrder[i] = contact

\* bot.py 943-946: sorted(date_user_orders.keys()), then for each date
\* sorted(user_data.keys()), the keys being user ids
month_order(rows) ==
    sorted({<<rows[i].delivery_date, rows[i].user_id>> : i \in 1..Len(rows)})

\* bot.py 986: sorted(user_orders.items(), key=lambda x: x[1]['contact']), a
\* stable sort of the users in the order of their first order in the result
day_order(rows) ==
    LET Place(u) == CHOOSE i \in 1..Len(rows) :
                        /\ rows[i].user_id = u
                        /\ \A j \in 1..(i - 1) : rows[j].user_id # u
        byName == sorted({<<ContactRank(rows[Place(rows[i].user_id)]
                                           .order_data.contact_person),
                            Place(rows[i].user_id), rows[i].user_id>> :
                             i \in 1..Len(rows)})
    IN  [i \in 1..Len(byName) |-> <<0, byName[i][3]>>]

\* bot.py 909-995: the rows of the CSV after the header.  For a month a row
\* per delivery date and user, by date and user_id; for a day a row per user
\* with an empty date column, by contact.  The name and the organization are
\* those of the user's first order in the result.  Then the totals row.
bot_report(rows, is_month) ==
    LET order == IF is_month THEN month_order(rows) ELSE day_order(rows)
        Of(key) == LET In(o) == /\ is_month => o.delivery_date = key[1]
                                /\ o.user_id = key[2]
                   IN  SelectSeq(rows, In)
        First(u) == LET By(o) == o.user_id = u
                    IN  Head(SelectSeq(rows, By)).order_data
        data == [i \in 1..Len(order) |->
                    [date |-> IF is_month THEN <<order[i][1]>> ELSE <<>>,
                     contact |-> First(order[i][2]).contact_person,
                     organization |-> First(order[i][2]).organization,
                     quantities |-> add_orders(ZeroQuantities, Of(order[i]))]]
    IN  [rows |-> data,
         totals |-> [c \in 1..NumProducts |-> sum_column(data, c)]]

\* update.message.reply_document(document=InputFile(csvfile, ...))
Document(report) == [text |-> "document", keyboard |-> {}, document |-> report]

\* user_id in ADMIN_IDS
IsAdmin(user_id) == \E i \in 1..Len(ADMIN_IDS) : ADMIN_IDS[i] = user_id

\* bot.py admin_stats without "if not orders" at 905
bot_admin_stats_no_rows_check(user_id, args, dbok) ==
    LET range == StatsRange(args)
        found == stats_orders(range.start_date, range.end_date)
    IN  /\ Show(user_id,
                IF ~IsAdmin(user_id) THEN Reply("admins_only", {})
                ELSE IF ~range.ok THEN Reply("bad_format", {})
                ELSE IF ~dbok THEN Reply("fetch_error", {})
                ELSE Document(bot_report(found, range.is_month)))
        /\ UNCHANGED <<dbVars, memVars, now, admin_chat>>

\* bot.py admin_stats (842-1002)
bot_admin_stats(user_id, args, dbok) ==
    LET range == StatsRange(args)
        found == stats_orders(range.start_date, range.end_date)
    IN  /\ Show(user_id,
                IF ~IsAdmin(user_id) THEN Reply("admins_only", {})
                ELSE IF ~range.ok THEN Reply("bad_format", {})
                ELSE IF ~dbok THEN Reply("fetch_error", {})
                ELSE IF found = <<>> THEN Reply("no_active_orders", {})
                ELSE Document(bot_report(found, range.is_month)))
        /\ UNCHANGED <<dbVars, memVars, now, admin_chat>>

\* handlers.py admin_stats (566-684).  The query groups the items of the rows
\* of stats_orders by delivery date, organization and contact person, so its
\* result is empty when stats_orders is.  dbok is whether the try block of
\* 614-630 returns (handlers.py does not import extras, so as the file stands
\* it never does).  On a result that is not empty, 655-666 fill the
\* quantities and "for (contact, org), quantities in sorted_users" at 672
\* unpacks a key of two strings into three names and raises: no document and
\* no reply.
admin_stats(user_id, args, dbok) ==
    LET range == StatsRange(args)
        found == stats_orders(range.start_date, range.end_date)
    IN  /\ IF ~IsAdmin(user_id) THEN Show(user_id, Reply("admins_only", {}))
           ELSE IF ~range.ok THEN Show(user_id, Reply("bad_format", {}))
           ELSE IF ~dbok THEN Show(user_id, Reply("fetch_error", {}))
           ELSE IF found = <<>> THEN Show(user_id, Reply("no_active_orders", {}))
           ELSE UNCHANGED chat
        /\ UNCHANGED <<dbVars, memVars, now, admin_chat>>

-----------------------------------------------------------------------------
(* SpecStats: /stats on a ledger of up to two orders of the two clients,     *)
(* active or cancelled, for the days of two months; user 2 is an admin.      *)

\* the lines of the cart a user's orders were made from
StatsCart(u) ==
    IF u = 1 THEN <<[product |-> PRODUCTS[1], quantity |-> 1]>>
    ELSE <<[product |-> PRODUCTS[NumProducts], quantity |-> 2],
           [product |-> PRODUCTS[1], quantity |-> 1]>>

\* the delivery dates of the orders: the last day of month 0 and the days
\* after it
StatsDays == {LastDay(0), FirstDay(1), FirstDay(1) + 1}

\* an order as process_delivery_time and cancel_last_order leave it
StatsRow(order_id, c) ==
    [order_id |-> order_id, user_id |-> c[1],
     order_data |-> Jsonb(OrderData(StatsCart(c[1]), Profile(c[1]), Username(c[1]))),
     delivery_date |-> c[2], delivery_time |-> DELIVERY_TIME_INTERVALS[1],
     status |-> c[3]]

\* the numbers of rows of the ledgers
StatsSizes == {0, 1, 2}

StatsLedgers ==
    UNION {{[k \in 1..n |-> StatsRow(k, f[k])] :
               f \in [1..n -> Users \X StatsDays \X {"active", "cancelled"}]} :
           n \in StatsSizes}

InitStats ==
    /\ clients = [u \in Users |-> Profile(u)]
    /\ orders \in StatsLedgers
    /\ pool = Database_init
    /\ get_client_cache = EmptyDict
    /\ user_carts = EmptyDict
    /\ current_editing = EmptyDict
    /\ selected_dates = EmptyDict
    /\ last_orders = EmptyDict
    /\ pending_product = EmptyDict
    /\ conversation = EmptyDict
    /\ user_data = EmptyDict
    /\ ADMIN_IDS = <<2>>
    /\ now = StartTime
    /\ chat = [u \in Users |-> NoReply]
    /\ admin_chat = [a \in Admins |-> <<>>]
    /\ tasks = {}

StatsArgs ==
    {StatsArg("none", 0), StatsArg("bad", 0)}
    \cup {StatsArg("day", d) : d \in StatsDays}
    \cup {StatsArg("month", m) : m \in {0, 1}}

StatsCommand(u) ==
    Idle /\ \E args \in StatsArgs, dbok \in BOOLEAN : admin_stats(u, args, dbok)

StatsBotCommand(u) ==
    Idle /\ \E args \in StatsArgs, dbok \in BOOLEAN : bot_admin_stats(u, args, dbok)

\* the commands of the admin
NextStats == \E u \in {2} : StatsCommand(u) \/ StatsBotCommand(u)

SpecStats == InitStats /\ [][NextStats]_vars

-----------------------------------------------------------------------------
(* Properties of SpecStats *)

\* ledger row k is active and its delivery date is in the period
InPeriod(k, range) ==
    /\ orders[k].status = "active"
    /\ range.start_date <= orders[k].delivery_date
    /\ orders[k].delivery_date <= range.end_date

RECURSIVE Units(_, _)
\* the units of product id over the ledger rows of S
Units(S, id) ==
    IF S = {} THEN 0
    ELSE LET k == CHOOSE j \in S : TRUE
         IN  QtyOf(orders[k].order_data.items, id) + Units(S \ {k}, id)

\* C19: the report of a period is computed from exactly the orders that are
\* active and have their delivery date in the period.  With S the set of
\* those rows of the ledger: if S is empty both handlers answer that there is
\* no active order, whatever cancelled orders and orders of other days the
\* ledger has; otherwise the report's data rows are the groups of the orders
\* of S and hold, product by product, the units of the orders of S and of no
\* other order.
C19_ReportFromActiveInPeriod ==
    [][\A u \in Users, args \in StatsArgs :
          LET range == StatsRange(args)
              S == {k \in 1..Len(orders) : InPeriod(k, range)}
          IN  (IsAdmin(u) /\ range.ok)
              => /\ (admin_stats(u, args, TRUE) /\ S = {})
                       => chat'[u] = Reply("no_active_orders", {})
                 /\ bot_admin_stats(u, args, TRUE)
                       => IF S = {} THEN chat'[u] = Reply("no_active_orders", {})
                          ELSE /\ chat'[u].text = "document"
                               /\ {<<chat'[u].document.rows[i].date,
                                     chat'[u].document.rows[i].organization,
                                     chat'[u].document.rows[i].contact>> :
                                        i \in 1..Len(chat'[u].document.rows)}
                                  = {<<IF range.is_month
                                       THEN <<orders[k].delivery_date>> ELSE <<>>,
                                       orders[k].order_data.organization,
                                       orders[k].order_data.contact_person>> :
                                        k \in S}
                               /\ \A c \in 1..NumProducts :
                                     sum_column(chat'[u].document.rows, c)
                                        = Units(S, c)]_vars

\* the admin has the report of a month for a ledger with a cancelled order in
\* the month and an active one: one data row
C19_CancelledLeftOut ==
    /\ Len(orders) = 2
    /\ orders[1].status = "cancelled"
    /\ orders[2].status = "active"
    /\ orders[1].delivery_date = orders[2].delivery_date
    /\ orders[1].user_id # orders[2].user_id
    /\ chat[2].text = "document"
    /\ Len(chat[2].document.rows) = 1

\* C20: for a result that is not empty the report ends with a totals row in
\* which each of the 13 product columns holds the units of that product over
\* all active orders of the period, and each data row holds, column by
\* column, the units of the orders of its delivery date, organization and
\* contact person: for every request of the admin with such a result,
\* admin_stats has a step that replies with that document.
C20_TotalsAndGroups ==
    \A args \in StatsArgs :
       LET range == StatsRange(args)
           S == {k \in 1..Len(orders) : InPeriod(k, range)}
           Group(row) ==
               {k \in S : /\ row.date \in {<<>>, <<orders[k].delivery_date>>}
                          /\ row.organization = orders[k].order_data.organization
                          /\ row.contact = orders[k].order_data.contact_person}
       IN  (tasks = {} /\ IsAdmin(2) /\ range.ok /\ S # {})
           => ENABLED (/\ admin_stats(2, args, TRUE)
                       /\ chat'[2].text = "document"
                       /\ \A c \in 1..NumProducts :
                             chat'[2].document.totals[c] = Units(S, c)
                       /\ \A i \in 1..Len(chat'[2].document.rows) :
                             \A c \in 1..NumProducts :
                                chat'[2].document.rows[i].quantities[c]
                                   = Units(Group(chat'[2].document.rows[i]), c))

\* C21: the data rows of a report are in ascending order of delivery date
\* and, within one date, in ascending order of the contact person's name:
\* of two rows the earlier one has the earlier date, or the same date and a
\* name that does not come after the later row's name.
C21_RowsByDateThenClient ==
    [][\A u \in Users, args \in StatsArgs, dbok \in BOOLEAN :
          (bot_admin_stats(u, args, dbok) /\ chat'[u].text = "document")
          => LET rows == chat'[u].document.rows
             IN  \A i, j \in 1..Len(rows) :
                    i < j => \/ /\ rows[i].date # <<>>
                                /\ rows[i].date[1] < rows[j].date[1]
                             \/ /\ rows[i].date = rows[j].date
                                /\ ContactRank(rows[i].contact)
                                      <= ContactRank(rows[j].contact)]_vars

\* the report of one day for a ledger in which user 1 ordered before user 2:
\* two rows without a date, user 2's name first
C21_DayRowsByName ==
    /\ Len(orders) = 2
    /\ orders[1].user_id = 1
    /\ orders[2].user_id = 2
    /\ chat[2].text = "document"
    /\ Len(chat[2].document.rows) = 2
    /\ chat[2].document.rows[1].date = <<>>
    /\ chat[2].document.rows[1].contact = Profile(2).contact_person
    /\ chat[2].document.rows[2].contact = Profile(1).contact_person

-----------------------------------------------------------------------------
(* handlers.py, bot.py: the registration conversation.  A message text is    *)
(* one of RegTexts; the users write in a private chat.                       *)

\* config.py 29: REGISTER_ORG, REGISTER_CONTACT, ENTER_QUANTITY = range(3)
REGISTER_ORG == 0

REGISTER_CONTACT == 1

\* the texts a user sends: blank, with a digit, padded with blanks, letters
\* only, a product title
RegTexts == {" ", "Roga123", " Kopyta ", "Abramov Petr", Titles[1]}

\* update.message.text.strip()
strip(text) ==
    CASE text = " " -> ""
      [] text = " Kopyta " -> "Kopyta"
      [] OTHER -> text

\* the texts with a character that is no letter, blank or hyphen
NotLetters == {"Roga123"}

\* the pattern without its closing $: a first letter is enough
re_match_prefix(text) == text # ""

\* re.match(r'^[А-Яа-яA-Za-z\s-]+$', text)
re_match(text) == text # "" /\ text \notin NotLetters

\* start (26-59), in a private chat: the lookup goes through get_client
start(user_id, dbok) ==
    LET client == get_client(user_id, dbok)
    IN  /\ user_data' = DictDel(user_data, user_id)
        /\ get_client_cache' = get_client_cached(user_id, dbok)
        /\ IF ~Falsy(client.organization) /\ ~Falsy(client.contact_person)
           THEN /\ Show(user_id, Reply("already_registered", {}))
                /\ conversation' = DictDel(conversation, user_id)
           ELSE /\ Show(user_id, Reply("enter_organization", {}))
                /\ conversation' = DictSet(conversation, user_id, REGISTER_ORG)
        /\ UNCHANGED <<dbVars, cartVars, selected_dates, last_orders,
                       pending_product, ADMIN_IDS, now, admin_chat, tasks>>

\* register_org (61-87)
register_org(user_id, text) ==
    LET org == strip(text)
    IN  /\ IF Falsy(org)
           THEN /\ Show(user_id, Reply("organization_empty", {}))
                /\ conversation' = DictSet(conversation, user_id, REGISTER_ORG)
                /\ UNCHANGED user_data
           ELSE IF ~re_match(org)
           THEN /\ Show(user_id, Reply("organization_letters_only", {}))
                /\ conversation' = DictSet(conversation, user_id, REGISTER_ORG)
                /\ UNCHANGED user_data
           ELSE /\ user_data' = DictSet(user_data, user_id, [organization |-> org])
                /\ Show(user_id, Reply("enter_contact", {}))
                /\ conversation' = DictSet(conversation, user_id, REGISTER_CONTACT)
        /\ UNCHANGED <<dbVars, get_client_cache, cartVars, selected_dates,
                       last_orders, pending_product, ADMIN_IDS, now, admin_chat,
                       tasks>>

\* register_contact (89-126): add_client swallows a failed INSERT, the reply
\* is the same
register_contact(user_id, text, dbok) ==
    LET contact == strip(text)
    IN  /\ IF Falsy(contact)
           THEN /\ Show(user_id, Reply("contact_empty", {}))
                /\ conversation' = DictSet(conversation, user_id, REGISTER_CONTACT)
                /\ UNCHANGED <<clients, pool, user_data>>
           ELSE IF ~re_match(contact)
           THEN /\ Show(user_id, Reply("contact_letters_only", {}))
                /\ conversation' = DictSet(conversation, user_id, REGISTER_CONTACT)
                /\ UNCHANGED <<clients, pool, user_data>>
           ELSE IF user_id \notin DOMAIN user_data
           THEN /\ Show(user_id, Reply("organization_lost", {}))
                /\ conversation' = DictDel(conversation, user_id)
                /\ UNCHANGED <<clients, pool, user_data>>
           ELSE /\ clients' = add_client(user_id, user_data[user_id].organization,
                                         contact, dbok)
                /\ Show(user_id, Reply("registration_done", {}))
                /\ user_data' = DictDel(user_data, user_id)
                /\ conversation' = DictDel(conversation, user_id)
        /\ UNCHANGED <<orders, pool, get_client_cache, cartVars, selected_dates,
                       last_orders, pending_product, ADMIN_IDS, now, admin_chat,
                       tasks>>

\* cancel_registration (128-134)
cancel_registration(user_id) ==
    /\ user_data' = DictDel(user_data, user_id)
    /\ pending_product' = DictDel(pending_product, user_id)
    /\ Show(user_id, Reply("registration_cancelled", {}))
    /\ conversation' = DictDel(conversation, user_id)
    /\ UNCHANGED <<dbVars, get_client_cache, cartVars, selected_dates,
                   last_orders, ADMIN_IDS, now, admin_chat, tasks>>

\* a command or a text of a user, bot.py main 1076-1098: the conversation
\* handler comes before the handler of product messages.  Outside a
\* conversation /start enters it and a text is a product message; inside,
\* /cancel is the fallback, a text goes to the handler of the state, and
\* /start has no handler (allow_reentry is not set).
message(user_id, command, text, dbok) ==
    IF user_id \notin DOMAIN conversation
    THEN IF command = "start" THEN start(user_id, dbok)
         ELSE IF command = ""
         THEN handle_product_message(user_id, <<text, "description">>, dbok)
         ELSE UNCHANGED vars
    ELSE IF command = "cancel" THEN cancel_registration(user_id)
         ELSE IF command # "" THEN UNCHANGED vars
         ELSE IF conversation[user_id] = REGISTER_ORG
         THEN register_org(user_id, text)
         ELSE register_contact(user_id, text, dbok)

-----------------------------------------------------------------------------
(* SpecReg: user 1 is a client, user 2 registers; commands and texts in any  *)
(* order, the database may fail, the cache of get_client may lose entries.   *)

RegStart(u) == Idle /\ \E dbok \in BOOLEAN : message(u, "start", "", dbok)

RegText(u) ==
    Idle /\ \E text \in RegTexts, dbok \in BOOLEAN : message(u, "", text, dbok)

RegCancel(u) == Idle /\ message(u, "cancel", "", TRUE)

\* the messages of user 2
NextReg ==
    \E u \in {2} :
       \/ RegStart(u)
       \/ RegText(u)
       \/ RegCancel(u)
       \/ GuardEvict(u)

SpecReg == Init /\ [][NextReg]_vars

-----------------------------------------------------------------------------
(* Properties of SpecReg *)

\* a text that passes the validation of both steps: not blank and made of
\* letters, blanks and hyphens
Acceptable(text) == text \notin {"", " ", "Roga123"}

\* C23: a client record is stored only after the organization and the
\* contact person both passed validation.  An organization text that is
\* blank or breaks the pattern leaves the user in the organization step, a
\* contact text that is blank or breaks the pattern leaves the user in the
\* contact step, and neither writes a client record; a record appears only
\* in a step of a user in the contact step whose text is acceptable, and it
\* holds the organization accepted before and that text; every stored
\* record holds an acceptable organization and contact person.
C23_ValidatedBeforeStored ==
    /\ [](\A u \in DOMAIN clients :
             /\ Acceptable(clients[u].organization)
             /\ Acceptable(clients[u].contact_person))
    /\ [][\A u \in Users, text \in RegTexts, dbok \in BOOLEAN :
             (u \in DOMAIN conversation /\ ~Acceptable(text)
              /\ message(u, "", text, dbok))
             => /\ conversation' = conversation
                /\ clients' = clients
                /\ user_data' = user_data]_vars
    /\ [][clients' # clients
          => \E u \in Users, text \in RegTexts :
                /\ u \in DOMAIN conversation
                /\ conversation[u] = REGISTER_CONTACT
                /\ Acceptable(text)
                /\ u \in DOMAIN user_data
                /\ Acceptable(user_data[u].organization)
                /\ clients' = DictSet(clients, u,
                                      [organization |-> user_data[u].organization,
                                       contact_person |-> strip(text)])]_vars

\* user 2 gave an organization, then a contact with a digit: still in the
\* contact step, the organization kept, no record
C23_ContactRefused ==
    /\ 2 \notin DOMAIN clients
    /\ 2 \in DOMAIN conversation
    /\ conversation[2] = REGISTER_CONTACT
    /\ user_data[2].organization = "Kopyta"
    /\ chat[2] = Reply("contact_letters_only", {})

\* user 2 completed the registration and has the record of the two texts
C23_Registered ==
    /\ 2 \in DOMAIN clients
    /\ clients[2] = Profile(2)
    /\ 2 \notin DOMAIN conversation
    /\ chat[2] = Reply("registration_done", {})

\* C24: once a user's registration has completed, every later lookup of the
\* user returns the stored organization and contact person, also when the
\* user was looked up before registering, as /start does: in every state a
\* lookup of a user with a client record, made with the database working,
\* returns that record, and such a user's message outside the registration
\* conversation is never answered with the request to register first.
C24_RegisteredIsFound ==
    /\ [](\A u \in DOMAIN clients : get_client(u, TRUE) = clients[u])
    /\ [][\A u \in Users, text \in RegTexts :
             (u \in DOMAIN clients /\ u \notin DOMAIN conversation
              /\ message(u, "", text, TRUE))
             => chat'[u].text # "register_first"]_vars

\* user 2 has a client record, and the product message sent after the
\* registration was answered with the request to register first
C24_RegisteredButRefused ==
    /\ 2 \in DOMAIN clients
    /\ 2 \notin DOMAIN conversation
    /\ 2 \in DOMAIN get_client_cache
    /\ get_client_cache[2] = NoClient
    /\ chat[2] = Reply("register_first", {})

-----------------------------------------------------------------------------
(* SpecSlot: one user fills the cart, then chooses the slot: dates and times *)
(* from the keyboards and from buttons of older messages and older           *)
(* configurations, back and forth between the cart, the dates and the times. *)
(* Nothing is added while a date is pending; the sends get through, the      *)
(* clock stands still.                                                       *)

\* the date buttons pressed: tomorrow, which the keyboard of today offers, and
\* today, which the keyboard of yesterday offered
SlotDates == {Today + 1, Today}

\* the time buttons pressed: the first interval, and an interval that is not
\* in DELIVERY_TIME_INTERVALS
SlotTimes == {DELIVERY_TIME_INTERVALS[1], <<3, 0, 5, 0>>}

SlotAdd(u) ==
    /\ Idle
    /\ u \notin DOMAIN selected_dates
    /\ CartItems(user_carts, u) = <<>>
    /\ bot_handle_product_message(u, ProductMessage(1), TRUE)

SlotChooseDates(u) ==
    /\ Idle
    /\ Button("select_delivery_date", <<>>) \in chat[u].keyboard
    /\ Press(u, Button("select_delivery_date", <<>>), TRUE, TRUE)

SlotSelectDate(u) ==
    Idle /\ \E date_str \in SlotDates :
               Press(u, Button("delivery_date", <<date_str>>), TRUE, TRUE)

SlotBackToDates(u) ==
    /\ Idle
    /\ Button("back_to_dates", <<>>) \in chat[u].keyboard
    /\ Press(u, Button("back_to_dates", <<>>), TRUE, TRUE)

SlotBackToCart(u) ==
    /\ Idle
    /\ Button("back_to_cart", <<>>) \in chat[u].keyboard
    /\ Press(u, Button("back_to_cart", <<>>), TRUE, TRUE)

SlotCommit(u) ==
    /\ Idle
    /\ Len(orders) < MaxRows
    /\ \E time_str \in SlotTimes :
          Press(u, Button("delivery_time", time_str), TRUE, TRUE)

NextSlot ==
    \/ \E u \in {1} :
          \/ SlotAdd(u)
          \/ SlotChooseDates(u)
          \/ SlotSelectDate(u)
          \/ SlotBackToDates(u)
          \/ SlotBackToCart(u)
          \/ SlotCommit(u)
    \/ GuardTaskStep

SpecSlot == Init /\ [][NextSlot]_vars

-----------------------------------------------------------------------------
(* Properties of SpecSlot *)

\* C29: the pending delivery date is cleared on commit and when the slot
\* selection is abandoned.  When a commit has ended with its confirmation
\* the user has no pending date; back_to_dates pressed under the times and
\* back_to_cart pressed under the dates leave the user without a pending
\* date; and a delivery_time event that arrives while the user is shown the
\* dates or the cart, that is with no date selected since, writes no order.
C29_DateClearedOnAbandon ==
    /\ [](\A u \in Users :
             (tasks = {} /\ chat[u].text = "order_confirmed")
             => u \notin DOMAIN selected_dates)
    /\ [][\A u \in Users :
             /\ (/\ Button("back_to_dates", <<>>) \in chat[u].keyboard
                 /\ Press(u, Button("back_to_dates", <<>>), TRUE, TRUE))
                => u \notin DOMAIN selected_dates'
             /\ (/\ Button("back_to_cart", <<>>) \in chat[u].keyboard
                 /\ Press(u, Button("back_to_cart", <<>>), TRUE, TRUE))
                => u \notin DOMAIN selected_dates'
             /\ \A time_str \in SlotTimes :
                   (/\ chat[u].text \in {"choose_date", "cart"}
                    /\ Press(u, Button("delivery_time", time_str), TRUE, TRUE))
                   => orders' = orders]_vars

\* the user went back from the times to the dates and from the dates to the
\* cart, and the time button of the older message made an order of the date
\* left behind: the commit waits for its confirmation under the cart
C29_OrderOfAbandonedDate ==
    /\ Len(orders) = 1
    /\ orders[1].delivery_date = Today + 1
    /\ chat[1].text = "cart"
    /\ \E t \in tasks : t.kind = "commit" /\ t.pc = "confirm"

\* C30: the slot of every persisted order comes from the offered options:
\* its delivery date is one of the 7 dates from tomorrow on that the dates
\* keyboard offered when the date was selected (the clock of SpecSlot stands
\* still, so these are the dates of DateKeyboard), and its delivery time is
\* one of DELIVERY_TIME_INTERVALS; a delivery_date event with another date
\* selects nothing and a delivery_time event with another interval writes no
\* order.
C30_SlotFromOfferedOptions ==
    /\ [](\A k \in 1..Len(orders) :
             /\ Button("delivery_date", <<orders[k].delivery_date>>) \in DateKeyboard
             /\ Button("delivery_time", orders[k].delivery_time) \in TimeKeyboard)
    /\ [][\A u \in Users :
             /\ \A date_str \in SlotDates :
                   (/\ Button("delivery_date", <<date_str>>) \notin DateKeyboard
                    /\ Press(u, Button("delivery_date", <<date_str>>), TRUE, TRUE))
                   => selected_dates' = selected_dates
             /\ \A time_str \in SlotTimes :
                   (/\ Button("delivery_time", time_str) \notin TimeKeyboard
                    /\ Press(u, Button("delivery_time", time_str), TRUE, TRUE))
                   => orders' = orders]_vars

\* an order for today, between 3:00 and 5:00, is stored and confirmed
C30_OrderOutsideTheOptions ==
    /\ Len(orders) = 1
    /\ orders[1].status = "active"
    /\ orders[1].delivery_date = Today
    /\ orders[1].delivery_time = <<3, 0, 5, 0>>
    /\ chat[1].text = "order_confirmed"
    /\ tasks = {}

-----------------------------------------------------------------------------
(* SpecIso: two registered users at once.  Each chooses a product, enters    *)
(* one unit, removes the line, picks the date, commits one order and         *)
(* cancels it; the updates of one user are handled one after the other,      *)
(* those of the other user are taken while a handler of the first waits at   *)
(* an await.  One admin chat, the database works, the sends get through.     *)

\* both users registered earlier
InitIso ==
    /\ clients = [u \in Users |-> Profile(u)]
    /\ orders = <<>>
    /\ pool = Database_init
    /\ get_client_cache = EmptyDict
    /\ user_carts = EmptyDict
    /\ current_editing = EmptyDict
    /\ selected_dates = EmptyDict
    /\ last_orders = EmptyDict
    /\ pending_product = EmptyDict
    /\ conversation = EmptyDict
    /\ user_data = EmptyDict
    /\ ADMIN_IDS = <<8>>
    /\ now = StartTime
    /\ chat = [u \in Users |-> NoReply]
    /\ admin_chat = [a \in Admins |-> <<>>]
    /\ tasks = {}

\* the ledger rows of user u, each with its id, status and content
RowsOf(u) == {orders[k] : k \in {j \in 1..Len(orders) : orders[j].user_id = u}}

\* no handler of user u waits at an await
IsoFree(u) == \A t \in tasks : t.user_id # u

IsoChoose(u) == IsoFree(u) /\ handle_product_message(u, ProductMessage(1), TRUE)

IsoQuantity(u) == IsoFree(u) /\ PendingQty(u) = 0 /\ enter_quantity(u, Number(1))

IsoRemove(u) == IsoFree(u) /\ Press(u, Button("remove_item", <<>>), TRUE, TRUE)

IsoSelectDate(u) == IsoFree(u) /\ Press(u, Button("delivery_date", <<1>>), TRUE, TRUE)

IsoCommit(u) ==
    /\ IsoFree(u)
    /\ RowsOf(u) = {}
    /\ \E time_str \in TimeInputs :
          Press(u, Button("delivery_time", time_str), TRUE, TRUE)

IsoCancel(u) == IsoFree(u) /\ Press(u, Button("cancel_last_order", <<>>), TRUE, TRUE)

\* an await of a handler of user u returns
IsoTaskStep(u) ==
    \E t \in tasks :
        /\ t.user_id = u
        /\ \/ commit_confirm(t, TRUE, TRUE)
           \/ commit_notify(t, TRUE)
           \/ cancel_notify(t, TRUE)
           \/ cancel_final(t, TRUE, TRUE)

\* an event of user u: an update of u is taken, or one of u's handlers goes on
IsoEvent(u) ==
    \/ IsoChoose(u)
    \/ IsoQuantity(u)
    \/ IsoRemove(u)
    \/ IsoSelectDate(u)
    \/ IsoCommit(u)
    \/ IsoCancel(u)
    \/ IsoTaskStep(u)

NextIso == \E u \in Users : IsoEvent(u)

SpecIso == InitIso /\ [][NextIso]_vars

-----------------------------------------------------------------------------
(* Properties of SpecIso *)

\* what the handlers keep for user u: <<>> for a key that is absent
Own(u) ==
    [cart     |-> IF u \in DOMAIN user_carts THEN <<user_carts[u]>> ELSE <<>>,
     cursor   |-> IF u \in DOMAIN current_editing THEN <<current_editing[u]>> ELSE <<>>,
     date     |-> IF u \in DOMAIN selected_dates THEN <<selected_dates[u]>> ELSE <<>>,
     product  |-> IF u \in DOMAIN pending_product THEN <<pending_product[u]>> ELSE <<>>,
     handle   |-> IF u \in DOMAIN last_orders THEN <<last_orders[u]>> ELSE <<>>]

\* C31: no event of a user a (an update of a that a handler takes, or the
\* return of an await of one of a's handlers) changes, for another user b,
\* the cart, the editing cursor, the pending delivery date, the pending
\* product or the last-order handle, nor the set of b's ledger rows with
\* their status and content.
C31_UsersDoNotInteract ==
    [][\A a \in Users : \A b \in Users \ {a} :
          IsoEvent(a) => /\ Own(b)' = Own(b)
                         /\ RowsOf(b)' = RowsOf(b)]_vars

\* user 2's commit waits at an await while user 1 holds a cart with a line,
\* a cursor, a pending date, a pending product, a handle and an active order
C31_BothUsersBusy ==
    /\ \E t \in tasks : t.user_id = 2 /\ t.kind = "commit"
    /\ CartItems(user_carts, 1) # <<>>
    /\ 1 \in DOMAIN current_editing
    /\ 1 \in DOMAIN selected_dates
    /\ 1 \in DOMAIN pending_product
    /\ 1 \in DOMAIN last_orders
    /\ \E k \in 1..Len(orders) : orders[k].user_id = 1 /\ orders[k].status = "active"

-----------------------------------------------------------------------------
(* SpecToken: callback data the bot never drew.  A registered user fills     *)
(* the cart and sends delivery_date_ and delivery_time_ tokens whose         *)
(* payloads are a date and an interval or are not, and tokens no branch of   *)
(* handle_callback_query matches.  The handlers run one at a time, the       *)
(* database works, the sends get through.                                    *)

\* the date payloads: tomorrow, the empty text, a text that is no date
TokenDates == {1, -1, -2}

\* the time payloads: the first interval, a start hour of 25, a start minute
\* of 75
TokenTimes == {DELIVERY_TIME_INTERVALS[1], <<25, 0, 27, 0>>, <<6, 75, 8, 0>>}

\* tokens without a branch: the button of the active-order view, a token of
\* no keyboard, delivery_date without its underscore
TokenUnknown ==
    {Button("cancel_order", <<1>>), Button("noise", <<>>), Button("delivery_date_", <<>>)}

TokenDate(u) ==
    Idle /\ \E date_str \in TokenDates :
               Press(u, Button("delivery_date", <<date_str>>), TRUE, TRUE)

TokenTime(u) ==
    /\ Idle
    /\ Len(orders) < MaxRows
    /\ \E time_str \in TokenTimes :
          Press(u, Button("delivery_time", time_str), TRUE, TRUE)

TokenOther(u) == Idle /\ \E button \in TokenUnknown : Press(u, button, TRUE, TRUE)

NextToken ==
    \/ \E u \in {1} :
          \/ AddProduct(u)
          \/ EnterOne(u)
          \/ TokenDate(u)
          \/ TokenTime(u)
          \/ TokenOther(u)
    \/ GuardTaskStep

SpecToken == Init /\ [][NextToken]_vars

-----------------------------------------------------------------------------
(* Properties of SpecToken *)

\* user u has a pending date, and it is no date or the start of time_str is
\* no time of the day
Malformed(u, time_str) ==
    /\ u \in DOMAIN selected_dates
    /\ \/ selected_dates[u] < 0
       \/ time_str[1] > 23
       \/ time_str[2] > 59

\* C32: a malformed callback token neither stops the handler nor corrupts
\* state.  A delivery_date_ token with a payload that is no date writes no
\* order, no handle and leaves the cart as it is; a delivery_time_ token
\* pressed while the pending date or the token's start time does not parse
\* ends its handler at once with an error reply (the generic error, or the
\* date-not-selected or empty-cart answer), writes no order, no handle and
\* leaves the cart and the cursor as they are; every such press has an
\* outcome; and a token without a branch changes no variable.
C32_MalformedTokenHarmless ==
    /\ [](\A u \in {1} :
             /\ \A date_str \in TokenDates :
                   ENABLED Press(u, Button("delivery_date", <<date_str>>), TRUE, TRUE)
             /\ \A time_str \in TokenTimes :
                   ENABLED Press(u, Button("delivery_time", time_str), TRUE, TRUE)
             /\ \A button \in TokenUnknown :
                   /\ ENABLED Press(u, button, TRUE, TRUE)
                   /\ ~ENABLED (Press(u, button, TRUE, TRUE) /\ vars' # vars))
    /\ [][\A u \in {1} :
             /\ \A date_str \in TokenDates :
                   (/\ date_str < 0
                    /\ Press(u, Button("delivery_date", <<date_str>>), TRUE, TRUE))
                   => /\ UNCHANGED <<orders, last_orders, cartVars, tasks>>
             /\ \A time_str \in TokenTimes :
                   (/\ Malformed(u, time_str)
                    /\ Press(u, Button("delivery_time", time_str), TRUE, TRUE))
                   => /\ UNCHANGED <<orders, last_orders, cartVars, tasks>>
                      /\ chat'[u].text \in
                            {"error_try_later", "date_not_selected", "cart_empty"}
                      /\ (/\ CartItems(user_carts, u) # <<>>
                          /\ selected_dates[u] # -1)
                         => chat'[u].text = "error_try_later"]_vars

\* with a line in the cart and a text that is no date as the pending date,
\* the press of a delivery time was answered with the generic error
C32_BadDateAnswered ==
    /\ chat[1].text = "error_try_later"
    /\ 1 \in DOMAIN selected_dates
    /\ selected_dates[1] = -2
    /\ CartItems(user_carts, 1) # <<>>
    /\ orders = <<>>
    /\ last_orders = EmptyDict
    /\ tasks = {}

-----------------------------------------------------------------------------
(* SpecLost: one user's updates taken while that user's commit waits at an   *)
(* await.  The user chooses among the products of LedgerProducts, enters one *)
(* unit of a product the cart does not hold yet, picks the date and commits  *)
(* the first order; one admin chat, the database works, the edits and sends  *)
(* get through.                                                              *)

LostChoose(u) ==
    /\ u \in DOMAIN clients
    /\ \E k \in LedgerProducts : handle_product_message(u, ProductMessage(k), TRUE)

LostQuantity(u) == PendingQty(u) = 0 /\ enter_quantity(u, Number(1))

LostSelectDate(u) ==
    u \in DOMAIN user_carts /\ Press(u, Button("delivery_date", <<1>>), TRUE, TRUE)

LostCommit(u) ==
    /\ orders = <<>>
    /\ \E time_str \in TimeInputs :
          Press(u, Button("delivery_time", time_str), TRUE, TRUE)

NextLost ==
    \/ \E u \in {1} :
          \/ LostChoose(u)
          \/ LostQuantity(u)
          \/ LostSelectDate(u)
          \/ LostCommit(u)
    \/ GuardTaskStep

SpecLost == Init /\ [][NextLost]_vars

-----------------------------------------------------------------------------
(* Properties of SpecLost *)

\* C33: no added item is lost by a commit.  At the step that ends a commit
\* (its last await returns and the session is cleared), every unit the cart
\* holds, the units added while the commit was waiting included, is a unit
\* of the order the commit persisted or is still in the cart after the step.
C33_NoAddedItemLost ==
    [][\A t \in tasks :
          CommitEnds(t)
          => \A id \in 1..NumProducts :
                QtyOf(CartItems(user_carts, t.user_id), id)
                   <= QtyOf(orders[t.order_data.order_id].order_data.items, id)
                      + QtyOf(CartItems(user_carts', t.user_id), id)]_vars

\* the commit has ended: the order has one line, the cart is empty, and the
\* cursor is still on the second line, the one added while the commit waited
C33_SecondLineGone ==
    /\ tasks = {}
    /\ Len(orders) = 1
    /\ Len(orders[1].order_data.items) = 1
    /\ CartItems(user_carts, 1) = <<>>
    /\ 1 \in DOMAIN current_editing
    /\ current_editing[1] = 1
    /\ chat[1].text = "order_confirmed"

-----------------------------------------------------------------------------
(* SpecPool: the methods of Database called one by one, each with its        *)
(* statement running or raising, on the tables of the two users and up to    *)
(* MaxRows orders; the process restarts, which constructs Database anew.     *)

\* the other state a call of a method of Database leaves alone
PoolFrame ==
    UNCHANGED <<user_carts, current_editing, selected_dates, last_orders,
                pending_product, regVars, ADMIN_IDS, now, outVars, tasks>>

\* get_client (58-70): the lru_cache answers without a call of the method
PoolGetClient(u) ==
    /\ \E dbok \in BOOLEAN :
          /\ get_client_cache' = get_client_cached(u, dbok)
          /\ pool' = IF u \in DOMAIN get_client_cache THEN pool
                     ELSE try_finally(pool, dbok)
    /\ UNCHANGED <<clients, orders>>
    /\ PoolFrame

\* add_client (72-86)
PoolAddClient(u) ==
    /\ \E dbok \in BOOLEAN :
          /\ clients' = add_client(u, Profile(u).organization,
                                   Profile(u).contact_person, dbok)
          /\ pool' = try_finally(pool, dbok)
    /\ UNCHANGED <<orders, get_client_cache>>
    /\ PoolFrame

\* save_order (100-117)
PoolSaveOrder(u) ==
    /\ Len(orders) < MaxRows
    /\ \E dbok \in BOOLEAN :
          /\ orders' = save_order(u, OrderData(<<>>, Profile(u), Username(u)),
                                  1, DELIVERY_TIME_INTERVALS[1], dbok).orders
          /\ pool' = try_finally(pool, dbok)
    /\ UNCHANGED <<clients, get_client_cache>>
    /\ PoolFrame

\* cancel_order (119-136)
PoolCancelOrder(order_id) ==
    /\ \E dbok \in BOOLEAN :
          /\ orders' = cancel_order(order_id, dbok).orders
          /\ pool' = try_finally(pool, dbok)
    /\ UNCHANGED <<clients, get_client_cache>>
    /\ PoolFrame

\* get_all_clients (88-98), get_active_order (138-162), get_order (164-188),
\* get_orders_for_date (190-204) and the query of admin_stats (handlers.py
\* 613-636): a SELECT
PoolSelect ==
    /\ \E dbok \in BOOLEAN : pool' = try_finally(pool, dbok)
    /\ UNCHANGED <<clients, orders, get_client_cache>>
    /\ PoolFrame

NextPool ==
    \/ \E u \in Users :
          \/ PoolGetClient(u)
          \/ PoolAddClient(u)
          \/ PoolSaveOrder(u)
    \/ \E order_id \in 1..MaxRows : PoolCancelOrder(order_id)
    \/ PoolSelect
    \/ Restart(<<8>>)

SpecPool == Init /\ [][NextPool]_vars

-----------------------------------------------------------------------------
(* Properties of SpecPool *)

\* C37: every operation of Database, its construction included, gives back
\* the connection it took, on its success path and on its error path: once
\* an operation has returned, and so in every state between two operations,
\* no connection is checked out of the pool.
C37_ConnectionsReturned == pool = 0

\* a connection is checked out while no operation runs, with both users in
\* the clients table and orders written and cancelled since the construction
C37_OneCheckedOut ==
    /\ pool = 1
    /\ DOMAIN clients = Users
    /\ Len(orders) = MaxRows
    /\ orders[1].status = "cancelled"

\* what does hold: no method called after the construction changes the
\* number of connections checked out, whether its statement runs or raises
PoolKeptByMethods ==
    [][(\/ \E u \in Users : PoolGetClient(u) \/ PoolAddClient(u) \/ PoolSaveOrder(u)
        \/ \E order_id \in 1..MaxRows : PoolCancelOrder(order_id)
        \/ PoolSelect)
       => pool' = pool]_vars

-----------------------------------------------------------------------------
(* The admin list: /add_admin and /remove_admin (handlers.py 686-724; the    *)
(* same code in bot.py 1004-1044).  context.args is <<>> or one text, a text *)
(* being what int() makes of it.  The list is the object config.py builds    *)
(* from ADMIN_CHAT_ID (20-26), which keeps an id that is written twice.      *)

\* a reply that names a user id, as the f-strings of 700 and 720 do
ReplyAbout(text, id) == [text |-> text, keyboard |-> {}, user_id |-> id]

\* list.remove(x): the list without the first x
ListRemove(lst, x) ==
    LET i == CHOOSE k \in 1..Len(lst) :
                 lst[k] = x /\ \A j \in 1..(k - 1) : lst[j] # x
    IN  [k \in 1..(Len(lst) - 1) |-> IF k < i THEN lst[k] ELSE lst[k + 1]]

\* what the admin commands leave alone
AdminFrame ==
    UNCHANGED <<dbVars, get_client_cache, user_carts, current_editing,
                selected_dates, last_orders, pending_product, regVars, now,
                admin_chat, tasks>>

add_admin_always_appends(user_id, args) ==
    /\ IF ~IsAdmin(user_id)
       THEN Show(user_id, Reply("admins_only", {})) /\ UNCHANGED ADMIN_IDS
       ELSE IF args = <<>>
       THEN Show(user_id, Reply("add_admin_usage", {})) /\ UNCHANGED ADMIN_IDS
       ELSE IF ~args[1].numeric
       THEN Show(user_id, Reply("bad_user_id", {})) /\ UNCHANGED ADMIN_IDS
       ELSE /\ ADMIN_IDS' = Append(ADMIN_IDS, args[1].value)
            /\ Show(user_id, ReplyAbout("admin_added", args[1].value))
    /\ AdminFrame

add_admin(user_id, args) ==
    /\ IF ~IsAdmin(user_id)
       THEN Show(user_id, Reply("admins_only", {})) /\ UNCHANGED ADMIN_IDS
       ELSE IF args = <<>>
       THEN Show(user_id, Reply("add_admin_usage", {})) /\ UNCHANGED ADMIN_IDS
       ELSE IF ~args[1].numeric
       THEN Show(user_id, Reply("bad_user_id", {})) /\ UNCHANGED ADMIN_IDS
       ELSE IF ~IsAdmin(args[1].value)
       THEN /\ ADMIN_IDS' = Append(ADMIN_IDS, args[1].value)
            /\ Show(user_id, ReplyAbout("admin_added", args[1].value))
       ELSE Show(user_id, Reply("already_admin", {})) /\ UNCHANGED ADMIN_IDS
    /\ AdminFrame

remove_admin(user_id, args) ==
    /\ IF ~IsAdmin(user_id)
       THEN Show(user_id, Reply("admins_only", {})) /\ UNCHANGED ADMIN_IDS
       ELSE IF args = <<>>
       THEN Show(user_id, Reply("remove_admin_usage", {})) /\ UNCHANGED ADMIN_IDS
       ELSE IF ~args[1].numeric
       THEN Show(user_id, Reply("bad_user_id", {})) /\ UNCHANGED ADMIN_IDS
       ELSE IF IsAdmin(args[1].value)
       THEN /\ ADMIN_IDS' = ListRemove(ADMIN_IDS, args[1].value)
            /\ Show(user_id, ReplyAbout("admin_removed", args[1].value))
       ELSE Show(user_id, Reply("not_an_admin", {})) /\ UNCHANGED ADMIN_IDS
    /\ AdminFrame

-----------------------------------------------------------------------------
(* SpecAdmin: the two users send /add_admin, /remove_admin and /stats; the   *)
(* ids they name are their own and a third one.  ADMIN_CHAT_ID names user 2, *)
(* once or twice.                                                           *)

\* the ids the commands name
AdminIds == {1, 2, 8}

\* context.args of /add_admin and /remove_admin
AdminArgs == {<<>>, <<NotANumber>>} \cup {<<Number(id)>> : id \in AdminIds}

\* the ledger /stats reads: empty, or one active order of user 1
AdminLedgers == {<<>>, <<StatsRow(1, <<1, FirstDay(1), "active">>)>>}

InitAdmin ==
    /\ clients = [u \in Users |-> Profile(u)]
    /\ orders \in AdminLedgers
    /\ pool = Database_init
    /\ get_client_cache = EmptyDict
    /\ user_carts = EmptyDict
    /\ current_editing = EmptyDict
    /\ selected_dates = EmptyDict
    /\ last_orders = EmptyDict
    /\ pending_product = EmptyDict
    /\ conversation = EmptyDict
    /\ user_data = EmptyDict
    /\ ADMIN_IDS \in {<<2>>, <<2, 2>>}
    /\ now = StartTime
    /\ chat = [u \in Users |-> NoReply]
    /\ admin_chat = [a \in Admins |-> <<>>]
    /\ tasks = {}

AdminAdd(u) == \E args \in AdminArgs : add_admin(u, args)

AdminRemove(u) == \E args \in AdminArgs : remove_admin(u, args)

NextAdmin ==
    \E u \in Users :
        \/ AdminAdd(u)
        \/ AdminRemove(u)
        \/ StatsCommand(u)
        \/ StatsBotCommand(u)

SpecAdmin == InitAdmin /\ [][NextAdmin]_vars

-----------------------------------------------------------------------------
(* Properties of SpecAdmin *)

\* how often id stands in the list
Count(lst, id) == Cardinality({i \in 1..Len(lst) : lst[i] = id})

\* the list without every id
Without(lst, id) ==
    LET Other(x) == x # id
    IN  SelectSeq(lst, Other)

\* C39: add_admin, remove_admin and admin_stats sent by a user who is not in
\* the admin list leave the list as it is and answer with the admins-only
\* text, never with a report; add_admin sent by an admin leaves the id it
\* names in the list, and never a second time unless it already stood there
\* twice, and changes no other entry; remove_admin sent by an admin takes at
\* most one entry out of the list, an entry of the id it names, and leaves
\* every other entry in its place.
C39_AdminListGuarded ==
    [][\A u \in Users :
          /\ (/\ u \notin Configured
              /\ \/ AdminAdd(u)
                 \/ AdminRemove(u)
                 \/ StatsCommand(u)
                 \/ StatsBotCommand(u))
             => /\ ADMIN_IDS' = ADMIN_IDS
                /\ chat'[u] = Reply("admins_only", {})
          /\ \A id \in AdminIds :
                /\ (u \in Configured /\ add_admin(u, <<Number(id)>>))
                   => /\ Count(ADMIN_IDS', id) = IF Count(ADMIN_IDS, id) = 0
                                                  THEN 1
                                                  ELSE Count(ADMIN_IDS, id)
                      /\ Without(ADMIN_IDS', id) = Without(ADMIN_IDS, id)
                /\ (u \in Configured /\ remove_admin(u, <<Number(id)>>))
                   => \/ id \notin Configured /\ ADMIN_IDS' = ADMIN_IDS
                      \/ \E k \in 1..Len(ADMIN_IDS) :
                            /\ ADMIN_IDS[k] = id
                            /\ ADMIN_IDS' = SubSeq(ADMIN_IDS, 1, k - 1)
                                 \o SubSeq(ADMIN_IDS, k + 1, Len(ADMIN_IDS))]_vars

\* user 1, no admin, was refused; admin 2 made user 8 an admin
C39_OutsiderRefusedAdminAdded ==
    /\ ADMIN_IDS = <<2, 8>>
    /\ chat[1] = Reply("admins_only", {})
    /\ chat[2] = ReplyAbout("admin_added", 8)

=============================================================================
